---- MODULE Spec2Model ----
(***************************************************************************)
(* stapply: the controller's `run` executor (cmd/stapply-ctl/main.go,      *)
(* cmdRun and runDeployArtifact), the agent's subscription handlers        *)
(* (stapply-agent main.go and update_handler.go) and the broker between    *)
(* them, as one state machine.                                             *)
(***************************************************************************)
EXTENDS Integers, Sequences, FiniteSets, Bags, TLC

\* ---------------------------------------------------------------- bounds
\* longest env.Hosts list
MaxHosts == 2
\* longest env.Apps list
MaxApps == 2
\* requests a bus peer publishes to an agent
MaxMsgs == 3
\* chunks a file on the agent's host may hold
MaxFileChunks == 3
\* concurrent calls of DeployArtifactAction.Execute
MaxCalls == 3
\* calls of security.Encrypt
MaxSeals == 3
MaxDeploys == 2

\* ------------------------------------------------------ program constants
\* const chunkSize = 10 * 1024 * 1024, counted here in MiB
chunkSize == 10

\* ---------------------------------------------------------- small helpers
Min(a, b) == IF a < b THEN a ELSE b

RECURSIVE SubSeqs(_, _)
\* the subsequences of s that have at most n elements
SubSeqs(s, n) ==
    IF s = <<>> \/ n = 0 THEN {<<>>}
    ELSE SubSeqs(Tail(s), n) \cup {<<Head(s)>> \o t : t \in SubSeqs(Tail(s), n - 1)}

\* a word of a command line; eq says whether it has the form key=value
Word(s) == [eq |-> FALSE, k |-> "", v |-> s]
KV(key, val) == [eq |-> TRUE, k |-> key, v |-> val]

\* ------------------------------------------------- the configuration file
\* Step{Action, ArgsMap} as parseStep builds it: a cmd step carries the
\* whole argument text as "command"
CmdStep(cmd) == [Action |-> "cmd", ArgsMap |-> [command |-> cmd]]
WriteFileStep(p, c) == [Action |-> "write_file", ArgsMap |-> [path |-> p, content |-> c]]

Marker == <<Word("STAPPLY_ACTION:"), Word("deploy_artifact")>>

\* cfg.Hosts: h1 has no agent_id of its own, h2 names agent a2
cfgHosts ==
    [h \in {"h1", "h2"} |->
        IF h = "h1" THEN [ID |-> "h1", AgentID |-> ""]
                    ELSE [ID |-> "h2", AgentID |-> "a2"]]

\* cfg.Apps: step numbers with a gap and a step 0; an artifact step without
\* dest and an artifact step
cfgApps ==
    [a \in {"web", "art"} |->
        CASE a = "web" -> [Name |-> a, Steps |->
                 (0 :> CmdStep(<<Word("true")>>)
                  @@ 1 :> CmdStep(<<Word("echo"), Word("hello")>>)
                  @@ 3 :> WriteFileStep("/tmp/x", "abc"))]
          [] a = "art" -> [Name |-> a, Steps |->
                 (1 :> CmdStep(Marker \o <<KV("src", "f1")>>)
                  @@ 2 :> CmdStep(Marker \o <<KV("src", "f1"), KV("dest", "/d1")>>))]]

\* local files of the controller host: path -> size in MiB
srcFiles ==
    [f \in {"f0", "f1", "f2"} |-> CASE f = "f0" -> 0 [] f = "f1" -> 15 [] f = "f2" -> 10]

\* the host and app names an environment section may list
HostUniverse == <<"h1", "ghost", "h2">>
AppUniverse == <<"web", "nope", "art">>
Concurrencies == {0, 1, 2}
Keys == {"", "k1"}

\* agent ids that have a running agent; no agent serves a2
Agents == {"h1"}

\* the Version constant of an agent binary
Versions == {"v1", "v2"}

\* ------------------------------------------------------------- variables
VARIABLES
    envHosts,       \* env.Hosts
    envApps,        \* env.Apps
    envConcurrency, \* env.Concurrency
    key,            \* the controller's effectiveKey
    secretKey,      \* the agents' STAPPLY_SHARED_KEY
    mainPc,         \* cmdRun's main goroutine: "spawn", "collect", "done"
    spawned,        \* hosts the for-range loop has started a goroutine for
    semaphore,      \* tokens in the semaphore channel
    resultCh,       \* the buffered result channel
    received,       \* i of the collecting loop
    okCount, changedCount, failedCount,
    exitCode,       \* <<>> until the process ends, then <<code>>
    worker,         \* per-host goroutine: position and local tally
    subQueue,       \* per agent: messages pending on its run subscription
    handling,       \* per agent: run messages whose action is executing
    pingQueue,      \* per agent: messages pending on its ping subscription
    updateQueue,    \* per agent: messages pending on its update subscription
    discoverQueue,  \* per agent: messages pending on its discover subscription
    version,        \* per agent: Version of the binary that is running
    proc,           \* per agent: "running" or "exited"
    emitted,        \* history: the run requests published by the controller
    injected,       \* history: the requests published by another bus peer
    replies,        \* history: bag of the replies published by agents
    cli,            \* a one-shot command of stapply-ctl: ping, discover, update
    host,           \* the agent's host: files, directories, locks, the unit
    calls,          \* concurrent calls of DeployArtifactAction.Execute
    disk,           \* per agent: the executable file and what handleUpdate did
    conn,           \* the controller from its flags to its broker connection
    box,            \* internal/security: the generator and the calls made
    deploy          \* runDeployArtifact: its position and the chunks it sent

vars == <<envHosts, envApps, envConcurrency, key, secretKey, mainPc, spawned,
          semaphore, resultCh, received, okCount, changedCount, failedCount,
          exitCode, worker, subQueue, handling, pingQueue, updateQueue,
          discoverQueue, version, proc, emitted, injected, replies, cli, host,
          calls, disk, conn, box, deploy>>

planVars == <<envHosts, envApps, envConcurrency, key, secretKey>>
mainVars == <<mainPc, spawned, received, okCount, changedCount, failedCount, exitCode>>
agentVars == <<subQueue, handling, replies>>
adminVars == <<pingQueue, updateQueue, discoverQueue, version, proc, injected>>

N == Len(envHosts)
Workers == 1..N

\* ------------------------------------------------------ internal/security
\* AES-GCM envelope: Encrypt wraps the plaintext under the key, Decrypt
\* returns it only for an envelope sealed with the same key
Plain(body) == [enc |-> FALSE, key |-> "", valid |-> TRUE, body |-> body]
Encrypt(data, k) == [data EXCEPT !.enc = TRUE, !.key = k]
DecryptOk(data, k) == data.enc /\ data.key = k
Decrypt(data, k) == [data EXCEPT !.enc = FALSE, !.key = ""]
\* mutant: an envelope taken for JSON text
UnmarshalOk_envelope(data) == data.valid

\* json.Unmarshal succeeds on JSON text, not on an envelope
UnmarshalOk(data) == ~data.enc /\ data.valid

\* mutant: Decrypt attempted whether or not a key is configured
CanRead_alwaysDecrypt(data, k) == DecryptOk(data, k) /\ UnmarshalOk(Decrypt(data, k))

\* mutant: the payload parsed whether or not it opened under the key
CanRead_ignoreKey(data, k) == UnmarshalOk(Decrypt(data, k))

\* what every receiver does with msg.Data: Decrypt when it holds a key, then
\* Unmarshal; TRUE when both succeed
CanRead(data, k) ==
    IF k # "" THEN DecryptOk(data, k) /\ UnmarshalOk(Decrypt(data, k))
    ELSE UnmarshalOk(data)

\* ------------------------------------------------------ internal/protocol
StatusOK == "ok"
StatusFailed == "failed"
StatusTimeout == "timeout"
StatusError == "error"

\* uuid.New(): a fresh value for every call; the g-th call of goroutine w
generateID(w, g) == <<"id", w, g>>

NewRunRequest(id, action, args, dryRun) ==
    [request_id |-> id, type |-> "run", action |-> action, args |-> args,
     dry_run |-> dryRun]

NewRunResponse(requestID, chg, exit) ==
    [request_id |-> requestID,
     status |-> IF exit # 0 THEN StatusFailed ELSE StatusOK,
     changed |-> chg, exit_code |-> exit, error |-> ""]

\* mutant: the error reply built without the request's id
NewErrorResponse_blankID(requestID, err) ==
    [request_id |-> <<>>, status |-> StatusError, changed |-> FALSE,
     exit_code |-> 0, error |-> err]

NewErrorResponse(requestID, err) ==
    [request_id |-> requestID, status |-> StatusError, changed |-> FALSE,
     exit_code |-> 0, error |-> err]

\* -------------------------------------------------------- internal/config
RECURSIVE Collect(_, _, _)
Collect(steps, i, maxStep) ==
    IF i > maxStep THEN <<>>
    ELSE (IF i \in DOMAIN steps THEN <<steps[i]>> ELSE <<>>)
         \o Collect(steps, i + 1, maxStep)

MaxOf(S) == CHOOSE m \in S : \A x \in S : x <= m

RECURSIVE CollectDown(_, _)
CollectDown(steps, i) ==
    IF i < 1 THEN <<>>
    ELSE (IF i \in DOMAIN steps THEN <<steps[i]>> ELSE <<>>) \o CollectDown(steps, i - 1)

\* mutant: the steps collected from maxStep down to 1
GetOrderedSteps_descending(app) ==
    IF DOMAIN app.Steps = {} THEN <<>>
    ELSE CollectDown(app.Steps, MaxOf(DOMAIN app.Steps \cup {0}))

\* App.GetOrderedSteps: maxStep starts at 0, the loop runs from 1 to maxStep
GetOrderedSteps(app) ==
    IF DOMAIN app.Steps = {} THEN <<>>
    ELSE Collect(app.Steps, 1, MaxOf(DOMAIN app.Steps \cup {0}))

\* --------------------------------------------------- controller: helpers
\* parseKVString: the key=value words, the last one of a key winning
RECURSIVE parseKVString(_)
parseKVString(s) ==
    IF s = <<>> THEN [x \in {} |-> ""]
    ELSE LET m == parseKVString(SubSeq(s, 1, Len(s) - 1))
             p == s[Len(s)]
         IN IF p.eq THEN (p.k :> p.v) @@ m ELSE m

\* m[k] of a Go map: "" when the key is absent
Lookup(m, k) == IF k \in DOMAIN m THEN m[k] ELSE ""

HasMarker(cmdStr) == Len(cmdStr) >= Len(Marker) /\ SubSeq(cmdStr, 1, Len(Marker)) = Marker
TrimMarker(cmdStr) == SubSeq(cmdStr, Len(Marker) + 1, Len(cmdStr))

\* mutant: the marker not looked for, every cmd step sent as a cmd
IsArtifactStep_never(step) == FALSE

IsArtifactStep(step) == step.Action = "cmd" /\ HasMarker(step.ArgsMap.command)
ArtifactArgs(step) == parseKVString(TrimMarker(step.ArgsMap.command))

\* int(math.Ceil(float64(totalSize) / float64(chunkSize)))
TotalChunks(totalSize) == (totalSize + chunkSize - 1) \div chunkSize

\* mutant: the ceiling ignored, one token per host
Concurrency_perHost == N

\* mutant: the non-positive ceiling not replaced by len(env.Hosts)
Concurrency_raw == envConcurrency

\* concurrency := env.Concurrency; if concurrency <= 0 { concurrency = len(env.Hosts) }
Concurrency == IF envConcurrency <= 0 THEN N ELSE envConcurrency

AgentIDOf(hID) == IF cfgHosts[hID].AgentID = "" THEN hID ELSE cfgHosts[hID].AgentID

CurApp(w) == cfgApps[envApps[worker[w].app]]
CurSteps(w) == GetOrderedSteps(CurApp(w))
CurStep(w) == CurSteps(w)[worker[w].step]
Inbox(w, g) == <<"_INBOX", w, g>>

\* the bytes of the request as they go on the wire
Seal(req, k) == IF k # "" THEN Encrypt(Plain(req), k) ELSE Plain(req)

\* nc.Request: publish on stapply.run.<agentID> with a private reply inbox
Publish(w, agentID, req) ==
    LET msg == [reply |-> Inbox(w, worker[w].seq + 1), data |-> Seal(req, key)]
    IN subQueue' = IF agentID \in Agents
                   THEN [subQueue EXCEPT ![agentID] = Append(@, msg)]
                   ELSE subQueue

\* ------------------------------------------------------------------ Init
NewWorker ==
    [pc |-> "idle", app |-> 1, step |-> 1, chunk |-> 0,
     ok |-> 0, changed |-> 0, failed |-> 0,
     seq |-> 0, returned |-> 0, inbox |-> <<>>, result |-> <<>>]

\* the paths the requests name and the directory of each (filepath.Dir)
Paths == {"/etc/a", "/missing/a", "/opt/app/bin"}
Dir(path) ==
    CASE path = "/etc/a" -> "/etc"
      [] path = "/missing/a" -> "/missing"
      [] path = "/opt/app/bin" -> "/opt/app"

\* a host on which no action has run: /etc exists and is empty, no lock is
\* held, the unit is inactive
FreshHost ==
    [files |-> [p \in Paths |-> <<>>], dirs |-> {"/etc"}, locks |-> {},
     active |-> FALSE, enabled |-> FALSE, last |-> <<>>]

\* no one-shot command has been invoked
NoCommand ==
    [n |-> 0, cmd |-> "none", sec |-> "", env |-> "", pc |-> "off",
     sent |-> <<>>, reply |-> <<>>, exit |-> <<>>]

\* one call of runDeployArtifact after the other
Sources == DOMAIN srcFiles \cup {"gone"}
NoDeploy ==
    [pc |-> "idle", n |-> 0, src |-> "", dest |-> "", i |-> 0, sent |-> <<>>,
     msg |-> <<>>, reply |-> <<>>, err |-> <<>>]

\* nothing started yet: cmdRun before its first loop, the agents subscribed
\* the goroutines that call DeployArtifactAction.Execute, the destinations
\* they name; no call has begun: a.fileLocks is empty
Goroutines == 1..MaxCalls
Dests == {"/opt/app/bin", "/etc/a"}
NoCalls ==
    [fileLocks |-> [d \in Dests |-> <<>>],
     g |-> [i \in Goroutines |-> [pc |-> "idle", args |-> <<>>, mutex |-> <<>>,
                                  resp |-> <<>>]]]

\* a controller that has not read its flags yet; a URL is kept by its parts
NoConn ==
    [pc |-> "start", cmd |-> "", arg |-> "", allowPublic |-> FALSE,
     natsURL |-> [scheme |-> "", host |-> [name |-> "", lit |-> <<>>, br |-> 0],
                  port |-> ""],
     server |-> <<>>, once |-> <<>>,
     err |-> "", validated |-> <<>>, dialled |-> <<>>, exit |-> <<>>, usage |-> FALSE]

\* the executable of each agent as installed, no <executable>.new beside
\* it; handleUpdate is not running, the connection has nothing to write
FreshDisk ==
    [a \in Agents |-> [exe |-> "v1", tmp |-> <<>>, pc |-> "idle", msg |-> <<>>,
                       out |-> <<>>, events |-> <<>>]]

Start ==
    /\ mainPc = "spawn"
    /\ spawned = 0
    /\ semaphore = 0
    /\ resultCh = <<>>
    /\ received = 0
    /\ okCount = 0 /\ changedCount = 0 /\ failedCount = 0
    /\ exitCode = <<>>
    /\ worker = [w \in 1..Len(envHosts) |-> NewWorker]
    /\ subQueue = [a \in Agents |-> <<>>]
    /\ handling = [a \in Agents |-> {}]
    /\ pingQueue = [a \in Agents |-> <<>>]
    /\ updateQueue = [a \in Agents |-> <<>>]
    /\ discoverQueue = [a \in Agents |-> <<>>]
    /\ version = [a \in Agents |-> "v1"]
    /\ proc = [a \in Agents |-> "running"]
    /\ emitted = {}
    /\ injected = {}
    /\ replies = EmptyBag
    /\ cli = NoCommand
    /\ host = FreshHost
    /\ calls = NoCalls
    /\ disk = FreshDisk
    /\ conn = NoConn
    /\ box = [rand |-> 0, sealed |-> <<>>, opened |-> <<>>]
    /\ deploy = NoDeploy

Init ==
    /\ envHosts \in SubSeqs(HostUniverse, MaxHosts)
    /\ envApps \in SubSeqs(AppUniverse, MaxApps)
    /\ envConcurrency \in Concurrencies
    /\ key \in Keys
    /\ secretKey \in Keys
    /\ Start

\* ------------------------------------------------ cmdRun: main goroutine
\* semaphore <- struct{}{}; go func(hID, key)
Spawn ==
    /\ mainPc = "spawn"
    /\ spawned < N
    /\ semaphore < Concurrency
    /\ semaphore' = semaphore + 1
    /\ spawned' = spawned + 1
    /\ worker' = [worker EXCEPT ![spawned + 1].pc = "start"]
    /\ UNCHANGED <<planVars, deploy, box, conn, host, calls, disk, adminVars, cli, mainPc, resultCh, received, okCount, changedCount,
                   failedCount, exitCode, agentVars, emitted>>

\* the for-range loop over env.Hosts ends
SpawnDone ==
    /\ mainPc = "spawn"
    /\ spawned = N
    /\ mainPc' = "collect"
    /\ UNCHANGED <<planVars, deploy, box, conn, host, calls, disk, adminVars, cli, spawned, semaphore, resultCh, received, okCount,
                   changedCount, failedCount, exitCode, worker, agentVars, emitted>>

\* r := <-resultCh; okCount += r.ok; ...
Collect1 ==
    /\ mainPc = "collect"
    /\ received < N
    /\ resultCh # <<>>
    /\ LET r == Head(resultCh) IN
        /\ okCount' = okCount + r.ok
        /\ changedCount' = changedCount + r.changed
        /\ failedCount' = failedCount + r.failed
    /\ resultCh' = Tail(resultCh)
    /\ received' = received + 1
    /\ UNCHANGED <<planVars, deploy, box, conn, host, calls, disk, adminVars, cli, mainPc, spawned, semaphore, exitCode, worker,
                   agentVars, emitted>>

\* mutant: the exit status taken from the wrong comparison
ExitStatus_strict(failed) == IF failed > 1 THEN <<1>> ELSE <<0>>

\* if failedCount > 0 { os.Exit(1) }, and 0 when main returns
ExitStatus(failed) == IF failed > 0 THEN <<1>> ELSE <<0>>

\* the Summary line and the end of the process
Summary ==
    /\ mainPc = "collect"
    /\ received = N
    /\ mainPc' = "done"
    /\ exitCode' = ExitStatus(failedCount)
    /\ UNCHANGED <<planVars, deploy, box, conn, host, calls, disk, adminVars, cli, spawned, semaphore, resultCh, received, okCount,
                   changedCount, failedCount, worker, agentVars, emitted>>

\* --------------------------------------------- cmdRun: per-host goroutine
Result(o, c, f) == [ok |-> o, changed |-> c, failed |-> f]

\* the send on resultCh, a channel of capacity len(env.Hosts)
ChanSend(r) ==
    /\ Len(resultCh) < N
    /\ resultCh' = Append(resultCh, r)

\* host, exists := cfg.Hosts[hID]
WorkerStart(w) ==
    /\ worker[w].pc = "start"
    /\ IF envHosts[w] \notin DOMAIN cfgHosts
       THEN /\ ChanSend(Result(0, 0, 1))
            /\ worker' = [worker EXCEPT ![w].pc = "release",
                                        ![w].result = Append(@, Result(0, 0, 1))]
       ELSE /\ worker' = [worker EXCEPT ![w].pc = "app"]
            /\ UNCHANGED resultCh
    /\ UNCHANGED <<planVars, deploy, box, conn, host, calls, disk, adminVars, cli, mainVars, semaphore, agentVars, emitted>>

\* mutant: the goroutine leaves the app loop at the first unknown app
AppNotFound_break(s) == [s EXCEPT !.failed = @ + 1, !.app = Len(envApps) + 1]

\* app not in cfg.Apps: failed++; continue
AppNotFound(s) == [s EXCEPT !.failed = @ + 1, !.app = @ + 1]

\* top of `for _, appName := range env.Apps`
WorkerApp(w) ==
    /\ worker[w].pc = "app"
    /\ LET s == worker[w] IN
       IF s.app > Len(envApps)
       THEN worker' = [worker EXCEPT ![w].pc = "send"]
       ELSE IF envApps[s.app] \notin DOMAIN cfgApps
       THEN worker' = [worker EXCEPT ![w] = AppNotFound(s)]
       ELSE worker' = [worker EXCEPT ![w].pc = "step", ![w].step = 1]
    /\ UNCHANGED <<planVars, deploy, box, conn, host, calls, disk, adminVars, cli, mainVars, semaphore, resultCh, agentVars, emitted>>

NextStep(s) == [s EXCEPT !.pc = "step", !.step = @ + 1, !.chunk = 0, !.inbox = <<>>]

\* the request of an ordinary step
StepRequest(w, step) ==
    NewRunRequest(generateID(w, worker[w].seq + 1), step.Action, step.ArgsMap, FALSE)

\* the request of chunk i of an artifact
ChunkArgs(src, dest, i) ==
    LET totalSize == srcFiles[src]
        n == Min(chunkSize, totalSize - i * chunkSize)
    IN [dest |-> dest, chunk_index |-> i,
        total_chunks |-> TotalChunks(totalSize), total_size |-> totalSize,
        checksum |-> <<"sha256", src>>, chunk_data |-> <<src, i, n>>,
        mode |-> "0755"]
ChunkRequest(w, src, dest, i) ==
    NewRunRequest(generateID(w, worker[w].seq + 1), "deploy_artifact",
                  ChunkArgs(src, dest, i), FALSE)

\* the step number a step has in its app
StepNoOf(appName, step) ==
    CHOOSE n \in DOMAIN cfgApps[appName].Steps : cfgApps[appName].Steps[n] = step

\* history: the g-th request of worker w, for step number n of its app
Emit(w, req, step) ==
    emitted' = emitted \cup
        {[request_id |-> req.request_id, w |-> w, g |-> worker[w].seq + 1,
          app |-> worker[w].app, n |-> StepNoOf(envApps[worker[w].app], step),
          action |-> req.action, chunk |-> worker[w].chunk]}

\* top of `for i, step := range steps`: an artifact step enters
\* runDeployArtifact, any other step is published as a run request
WorkerStep(w) ==
    /\ worker[w].pc = "step"
    /\ LET s == worker[w] IN
       IF s.step > Len(CurSteps(w))
       THEN /\ worker' = [worker EXCEPT ![w].pc = "app", ![w].app = @ + 1]
            /\ UNCHANGED <<subQueue, emitted>>
       ELSE LET step == CurStep(w) IN
            IF IsArtifactStep(step)
            THEN LET a == ArtifactArgs(step) IN
                 /\ UNCHANGED <<subQueue, emitted>>
                 /\ IF Lookup(a, "src") = "" \/ Lookup(a, "dest") = ""
                    THEN worker' = [worker EXCEPT ![w] = [NextStep(s) EXCEPT !.failed = @ + 1]]
                    ELSE IF Lookup(a, "src") \notin DOMAIN srcFiles
                    THEN worker' = [worker EXCEPT ![w] = [NextStep(s) EXCEPT !.failed = @ + 1]]
                    ELSE worker' = [worker EXCEPT ![w].pc = "chunk", ![w].chunk = 0]
            ELSE LET req == StepRequest(w, step) IN
                 /\ Publish(w, AgentIDOf(envHosts[w]), req)
                 /\ Emit(w, req, step)
                 /\ worker' = [worker EXCEPT ![w].pc = "wait", ![w].seq = @ + 1]
    /\ UNCHANGED <<planVars, deploy, box, conn, host, calls, disk, adminVars, cli, mainVars, semaphore, resultCh, handling, replies>>

\* the reply as the controller reads it: (ok, resp) after Decrypt and Unmarshal
ReplyReadable(data) == CanRead(data, key)

\* mutant: the StatusError case missing from the switch
Tally_noError(s, resp) ==
    CASE resp.status = StatusOK /\ resp.changed -> [s EXCEPT !.changed = @ + 1]
      [] resp.status = StatusOK /\ ~resp.changed -> [s EXCEPT !.ok = @ + 1]
      [] resp.status = StatusFailed -> [s EXCEPT !.failed = @ + 1]
      [] OTHER -> s

\* switch resp.Status of cmdRun
Tally(s, resp) ==
    CASE resp.status = StatusOK /\ resp.changed -> [s EXCEPT !.changed = @ + 1]
      [] resp.status = StatusOK /\ ~resp.changed -> [s EXCEPT !.ok = @ + 1]
      [] resp.status = StatusFailed -> [s EXCEPT !.failed = @ + 1]
      [] resp.status = StatusError -> [s EXCEPT !.failed = @ + 1]
      [] OTHER -> s

\* nc.Request returns a message
WorkerReply(w) ==
    /\ worker[w].pc = "wait"
    /\ worker[w].inbox # <<>>
    /\ LET s == [worker[w] EXCEPT !.returned = @ + 1]
           data == worker[w].inbox[1]
       IN IF ~ReplyReadable(data)
          THEN worker' = [worker EXCEPT ![w] = [NextStep(s) EXCEPT !.failed = @ + 1]]
          ELSE worker' = [worker EXCEPT ![w] = NextStep(Tally(s, data.body))]
    /\ UNCHANGED <<planVars, deploy, box, conn, host, calls, disk, adminVars, cli, mainVars, semaphore, resultCh, agentVars, emitted>>

\* nc.Request returns nats.ErrTimeout (or another error)
WorkerTimeout(w) ==
    /\ worker[w].pc = "wait"
    /\ worker[w].inbox = <<>>
    /\ worker' = [worker EXCEPT ![w] =
           [NextStep(worker[w]) EXCEPT !.failed = @ + 1, !.returned = @ + 1]]
    /\ UNCHANGED <<planVars, deploy, box, conn, host, calls, disk, adminVars, cli, mainVars, semaphore, resultCh, agentVars, emitted>>

\* runDeployArtifact: top of the chunk loop
WorkerChunk(w) ==
    /\ worker[w].pc = "chunk"
    /\ LET s == worker[w]
           a == ArtifactArgs(CurStep(w))
           totalSize == srcFiles[a["src"]]
           n == Min(chunkSize, totalSize - s.chunk * chunkSize)
       IN IF s.chunk >= TotalChunks(totalSize) \/ n = 0
          THEN \* return nil: "Artifact deployed successfully", no counter moves
               /\ worker' = [worker EXCEPT ![w] = NextStep(s)]
               /\ UNCHANGED <<subQueue, emitted>>
          ELSE LET req == ChunkRequest(w, a["src"], a["dest"], s.chunk) IN
               /\ Publish(w, AgentIDOf(envHosts[w]), req)
               /\ Emit(w, req, CurStep(w))
               /\ worker' = [worker EXCEPT ![w].pc = "cwait", ![w].seq = @ + 1]
    /\ UNCHANGED <<planVars, deploy, box, conn, host, calls, disk, adminVars, cli, mainVars, semaphore, resultCh, handling, replies>>

\* mutant: a chunk reply accepted whatever its status
ChunkOk_anyStatus(data) == ReplyReadable(data)

\* runDeployArtifact: the reply decrypts, parses and has resp.Status ok
ChunkOk(data) == ReplyReadable(data) /\ data.body.status = StatusOK

\* runDeployArtifact: nc.Request returns a message for the chunk
WorkerChunkReply(w) ==
    /\ worker[w].pc = "cwait"
    /\ worker[w].inbox # <<>>
    /\ LET s == [worker[w] EXCEPT !.returned = @ + 1]
           data == worker[w].inbox[1]
       IN IF ChunkOk(data)
          THEN worker' = [worker EXCEPT ![w] =
                   [s EXCEPT !.pc = "chunk", !.chunk = @ + 1, !.inbox = <<>>]]
          ELSE worker' = [worker EXCEPT ![w] = [NextStep(s) EXCEPT !.failed = @ + 1]]
    /\ UNCHANGED <<planVars, deploy, box, conn, host, calls, disk, adminVars, cli, mainVars, semaphore, resultCh, agentVars, emitted>>

\* runDeployArtifact: nc.Request fails for the chunk
WorkerChunkTimeout(w) ==
    /\ worker[w].pc = "cwait"
    /\ worker[w].inbox = <<>>
    /\ worker' = [worker EXCEPT ![w] =
           [NextStep(worker[w]) EXCEPT !.failed = @ + 1, !.returned = @ + 1]]
    /\ UNCHANGED <<planVars, deploy, box, conn, host, calls, disk, adminVars, cli, mainVars, semaphore, resultCh, agentVars, emitted>>

\* resultCh <- result{ok, changed, failed}
WorkerSend(w) ==
    /\ worker[w].pc = "send"
    /\ LET r == Result(worker[w].ok, worker[w].changed, worker[w].failed) IN
        /\ ChanSend(r)
        /\ worker' = [worker EXCEPT ![w].pc = "release", ![w].result = Append(@, r)]
    /\ UNCHANGED <<planVars, deploy, box, conn, host, calls, disk, adminVars, cli, mainVars, semaphore, agentVars, emitted>>

\* defer func() { <-semaphore }()
WorkerRelease(w) ==
    /\ worker[w].pc = "release"
    /\ semaphore > 0
    /\ semaphore' = semaphore - 1
    /\ worker' = [worker EXCEPT ![w].pc = "done"]
    /\ UNCHANGED <<planVars, deploy, box, conn, host, calls, disk, adminVars, cli, mainVars, resultCh, agentVars, emitted>>

\* ------------------------------------------------------ internal/actions
Registry == {"cmd", "write_file", "template_file", "systemd", "deploy_artifact"}

\* the argument validation each action starts with: the first required
\* argument that is absent or empty, "" when none is
MissingArg(actionName, args) ==
    LET none(k) == k \notin DOMAIN args \/ args[k] = ""
        first(ks) == IF \E i \in DOMAIN ks : none(ks[i])
                     THEN ks[CHOOSE i \in DOMAIN ks :
                                 none(ks[i]) /\ \A j \in 1..(i - 1) : ~none(ks[j])]
                     ELSE ""
    IN CASE actionName = "cmd" ->
              IF "command" \notin DOMAIN args \/ args.command = <<>>
              THEN "command" ELSE ""
         [] actionName = "write_file" ->
              IF none("path") THEN "path"
              ELSE IF "content" \notin DOMAIN args THEN "content" ELSE ""
         [] actionName = "template_file" -> first(<<"path", "template">>)
         [] actionName = "deploy_artifact" ->
              IF none("dest") THEN "dest"
              ELSE IF "chunk_data" \notin DOMAIN args \/ args.chunk_data = <<>>
              THEN "chunk_data" ELSE ""
         [] actionName = "systemd" ->
              IF none("action") THEN "action"
              ELSE IF args.action # "daemon-reload" /\ none("unit") THEN "unit" ELSE ""
         [] OTHER -> ""

\* CmdAction.Execute: a missing command is an error; a dry run looks the
\* executable up in PATH; a `creates` path that exists skips the command;
\* otherwise the shell runs it and its exit code decides the status
CmdAction(requestID, args, dryRun) ==
    IF MissingArg("cmd", args) # ""
    THEN {NewErrorResponse(requestID, "missing required argument")}
    ELSE IF dryRun
    THEN {NewRunResponse(requestID, FALSE, 0), NewRunResponse(requestID, TRUE, 0)}
    ELSE (IF Lookup(args, "creates") # ""
          THEN {[request_id |-> requestID, status |-> StatusOK, changed |-> FALSE,
                 exit_code |-> 0, error |-> ""]}
          ELSE {})
         \cup {NewRunResponse(requestID, TRUE, 0), NewRunResponse(requestID, TRUE, 1),
               NewErrorResponse(requestID, "exec failed")}

\* mutant: an action the registry does not hold answered as a success
UnknownAction_ok(requestID) == {NewRunResponse(requestID, FALSE, 0)}

\* Registry.Execute when Get finds no action of that name
UnknownAction(requestID) == {NewErrorResponse(requestID, "unknown action type")}

\* Registry.Execute: the replies an action may produce for the request, the
\* state of the host deciding which
Execute(requestID, actionName, args, dryRun) ==
    IF actionName \notin Registry
    THEN UnknownAction(requestID)
    ELSE IF MissingArg(actionName, args) # ""
    THEN {NewErrorResponse(requestID, "missing required argument")}
    ELSE CASE actionName = "cmd" -> CmdAction(requestID, args, dryRun)
           [] actionName = "write_file" ->
                {NewRunResponse(requestID, TRUE, 0), NewRunResponse(requestID, FALSE, 0),
                 NewErrorResponse(requestID, "write failed")}
           [] actionName = "deploy_artifact" ->
                {NewRunResponse(requestID, TRUE, 0),
                 NewErrorResponse(requestID, "artifact error")}
           [] OTHER -> {NewRunResponse(requestID, TRUE, 0)}

\* ------------------------------------------------------ agent: handleRun
\* mutant: every message handled on a goroutine of its own
SubscriptionFree_goroutine(a) == TRUE

\* nc.Subscribe(runSubject, func(msg) { handleRun(msg, ...) }): the callback
\* of a subscription is invoked for one message at a time
SubscriptionFree(a) == handling[a] = {}

\* handleRun up to registry.Execute: decrypt and parse, or drop the message
AgentReceive(a) ==
    /\ proc[a] = "running"
    /\ subQueue[a] # <<>>
    /\ SubscriptionFree(a)
    /\ LET msg == Head(subQueue[a])
           readable == CanRead(msg.data, secretKey)
       IN handling' = IF readable THEN [handling EXCEPT ![a] = @ \cup {msg}]
                                  ELSE handling
    /\ subQueue' = [subQueue EXCEPT ![a] = Tail(@)]
    /\ UNCHANGED <<planVars, deploy, box, conn, host, calls, disk, adminVars, cli, mainVars, semaphore, resultCh, worker, emitted, replies>>

\* msg.Respond: the broker hands the reply to the requester still waiting on
\* that inbox and drops it otherwise
Deliver(to, data) ==
    worker' = [w \in DOMAIN worker |->
        IF /\ worker[w].pc \in {"wait", "cwait"}
           /\ Inbox(w, worker[w].seq) = to
           /\ worker[w].inbox = <<>>
        THEN [worker[w] EXCEPT !.inbox = <<data>>]
        ELSE worker[w]]

\* the inbox nc.Request creates for the n-th command invoked
CliInbox(n) == Inbox(-1, n)

\* msg.Respond towards a one-shot command: nc.Request takes the first
\* message on its inbox
CliDeliver(to, data) ==
    cli' = IF cli.pc = "wait" /\ to = CliInbox(cli.n) /\ cli.reply = <<>>
           THEN [cli EXCEPT !.reply = <<data>>]
           ELSE cli

\* json.Marshal, security.Encrypt under the agent's key, msg.Respond
Respond(msg, resp) ==
    /\ Deliver(msg.reply, Seal(resp, secretKey))
    /\ CliDeliver(msg.reply, Seal(resp, secretKey))
    /\ replies' = replies (+) SetToBag({[to |-> msg.reply, request_id |-> resp.request_id]})

\* msg.Respond of a process that ends before its connection has written
\* the reply out: the reply reaches nobody
Unsent(msg, resp) ==
    /\ replies' = replies (+) SetToBag({[to |-> msg.reply, request_id |-> resp.request_id]})
    /\ UNCHANGED <<worker, cli>>

\* handleRun from registry.Execute to msg.Respond
AgentRespond(a) ==
    \E msg \in handling[a] :
        LET req == msg.data.body IN
        \E resp \in Execute(req.request_id, req.action, req.args, req.dry_run) :
            /\ proc[a] = "running"
            /\ Respond(msg, resp)
            /\ handling' = [handling EXCEPT ![a] = @ \ {msg}]
            /\ UNCHANGED <<planVars, deploy, box, conn, host, calls, disk, adminVars, mainVars, semaphore, resultCh, subQueue, emitted>>

\* ------------------------------------------------------------------ Next
Next ==
    \/ Spawn
    \/ SpawnDone
    \/ Collect1
    \/ Summary
    \/ \E w \in Workers : WorkerStart(w)
    \/ \E w \in Workers : WorkerApp(w)
    \/ \E w \in Workers : WorkerStep(w)
    \/ \E w \in Workers : WorkerReply(w)
    \/ \E w \in Workers : WorkerTimeout(w)
    \/ \E w \in Workers : WorkerChunk(w)
    \/ \E w \in Workers : WorkerChunkReply(w)
    \/ \E w \in Workers : WorkerChunkTimeout(w)
    \/ \E w \in Workers : WorkerSend(w)
    \/ \E w \in Workers : WorkerRelease(w)
    \/ \E a \in Agents : AgentReceive(a)
    \/ \E a \in Agents : AgentRespond(a)

Spec == Init /\ [][Next]_vars

\* --------------------------------------- agent: the other subscriptions
NewPingRequest(id) == [request_id |-> id, type |-> "ping", controller_version |-> "v1"]
NewUpdateRequest(id, targetVersion, binaryURL) ==
    [request_id |-> id, type |-> "update", target_version |-> targetVersion,
     binary_url |-> binaryURL]
DiscoverRequest(id) == [request_id |-> id, type |-> "discover"]

NewPingResponse(requestID, agentID, ver) ==
    [request_id |-> requestID, agent_id |-> agentID, version |-> ver]
UpdateResponse(requestID, success) == [request_id |-> requestID, success |-> success]
\* what GatherFacts reads from the host
Facts == {"hostname", "memory", "disk", "ips"}
\* what of it cannot be read at the time of a call: nothing, or one fact
Unread == {{}} \cup {{f} : f \in Facts}

\* mutant: a hostname that cannot be read left empty
GatherFacts_anyway(agentID, unread) ==
    [err |-> "",
     resp |-> <<[request_id |-> <<>>, agent_id |-> agentID,
                 hostname |-> IF "hostname" \in unread THEN "" ELSE agentID,
                 memory_total |-> 0, disk_usage_root |-> 0, ip_addresses |-> <<>>]>>]

\* sysinfo.GatherFacts: an error when os.Hostname fails, zero values for
\* what else cannot be read; RequestID is left empty
GatherFacts(agentID, unread) ==
    IF "hostname" \in unread THEN [err |-> "get hostname", resp |-> <<>>]
    ELSE [err |-> "",
          resp |-> <<[request_id |-> <<>>, agent_id |-> agentID, hostname |-> agentID,
                      memory_total |-> IF "memory" \in unread THEN 0 ELSE 16,
                      disk_usage_root |-> IF "disk" \in unread THEN 0 ELSE 40,
                      ip_addresses |-> IF "ips" \in unread THEN <<>>
                                       ELSE <<"10.1.2.3">>]>>]

\* bytes that are no JSON object
Garbage == [Plain([request_id |-> <<>>, type |-> "garbage"]) EXCEPT !.valid = FALSE]

\* the bodies a peer may publish on a subject of the agent, under the id it
\* generated for the request
Bodies(subject, id) ==
    CASE subject = "ping" -> {NewPingRequest(id)}
      [] subject = "discover" -> {DiscoverRequest(id)}
      [] subject = "update" -> {NewUpdateRequest(id, v, "url") : v \in Versions}
      [] subject = "run" ->
            {NewRunRequest(id, "cmd", [command |-> <<Word("true")>>], FALSE),
             NewRunRequest(id, "cmd", [command |-> <<Word("true")>>], TRUE),
             NewRunRequest(id, "cmd",
                 [command |-> <<Word("true")>>, creates |-> "/etc/x"], FALSE),
             NewRunRequest(id, "write_file", [path |-> "/tmp/x", content |-> "abc"], FALSE),
             NewRunRequest(id, "cmd", [creates |-> "/etc/x"], FALSE),
             NewRunRequest(id, "frob", [command |-> <<Word("x")>>], FALSE)}

Enqueue(q, a, msg) == [q EXCEPT ![a] = Append(@, msg)]

\* a peer that holds `key` publishes a request, or bytes that are no
\* request, on one of the agent's four subjects
Inject(a) ==
    /\ Cardinality(injected) < MaxMsgs
    /\ LET n == Cardinality(injected) + 1 IN
       \E subject \in {"ping", "run", "discover", "update"} :
       \E data \in {Seal(b, key) : b \in Bodies(subject, generateID(0, n))}
                   \cup {IF key # "" THEN Encrypt(Garbage, key) ELSE Garbage} :
           LET msg == [reply |-> Inbox(0, n), data |-> data] IN
           /\ pingQueue' = IF subject = "ping" THEN Enqueue(pingQueue, a, msg) ELSE pingQueue
           /\ subQueue' = IF subject = "run" THEN Enqueue(subQueue, a, msg) ELSE subQueue
           /\ discoverQueue' = IF subject = "discover"
                               THEN Enqueue(discoverQueue, a, msg) ELSE discoverQueue
           /\ updateQueue' = IF subject = "update"
                             THEN Enqueue(updateQueue, a, msg) ELSE updateQueue
           /\ injected' = injected \cup
                  {[reply |-> msg.reply, request_id |-> data.body.request_id,
                    subject |-> subject, valid |-> data.valid,
                    action |-> IF "action" \in DOMAIN data.body
                               THEN data.body.action ELSE "",
                    missing |-> IF "action" \in DOMAIN data.body
                                THEN MissingArg(data.body.action, data.body.args)
                                ELSE ""]}
    /\ UNCHANGED <<planVars, deploy, box, conn, host, calls, disk, cli, mainVars, semaphore, resultCh, worker, handling,
                   version, proc, emitted, replies>>

\* handlePing
HandlePing(a) ==
    /\ proc[a] = "running"
    /\ pingQueue[a] # <<>>
    /\ LET msg == Head(pingQueue[a])
           req == msg.data.body
       IN IF CanRead(msg.data, secretKey)
          THEN Respond(msg, NewPingResponse(req.request_id, a, version[a]))
          ELSE UNCHANGED <<worker, replies, cli>>
    /\ pingQueue' = [pingQueue EXCEPT ![a] = Tail(@)]
    /\ UNCHANGED <<planVars, deploy, box, conn, host, calls, disk, mainVars, semaphore, resultCh, subQueue, handling,
                   updateQueue, discoverQueue, version, proc, emitted, injected>>

\* handleDiscover: no reply when GatherFacts fails
HandleDiscover(a) ==
    /\ proc[a] = "running"
    /\ discoverQueue[a] # <<>>
    /\ LET msg == Head(discoverQueue[a])
           req == msg.data.body
       IN IF CanRead(msg.data, secretKey)
          THEN \E unread \in Unread :
                 LET facts == GatherFacts(a, unread) IN
                    IF facts.err = ""
                    THEN Respond(msg, [facts.resp[1] EXCEPT !.request_id = req.request_id])
                    ELSE UNCHANGED <<worker, replies, cli>>
          ELSE UNCHANGED <<worker, replies, cli>>
    /\ discoverQueue' = [discoverQueue EXCEPT ![a] = Tail(@)]
    /\ UNCHANGED <<planVars, deploy, box, conn, host, calls, disk, mainVars, semaphore, resultCh, subQueue, handling,
                   pingQueue, updateQueue, version, proc, emitted, injected>>

\* how far handleUpdate gets once the versions differ
UpdateOutcomes == {"download failed", "chmod failed", "replace failed", "updated"}

\* nc.Drain() and os.Exit or syscall.Exec: what the old process had
\* pending is gone; the new binary runs unless the restart failed
Restart(a, targetVersion) ==
    \E p \in {"running", "exited"} :
        /\ proc' = [proc EXCEPT ![a] = p]
        /\ version' = [version EXCEPT ![a] = IF p = "running" THEN targetVersion ELSE @]
        /\ subQueue' = [subQueue EXCEPT ![a] = <<>>]
        /\ handling' = [handling EXCEPT ![a] = {}]
        /\ pingQueue' = [pingQueue EXCEPT ![a] = <<>>]
        /\ discoverQueue' = [discoverQueue EXCEPT ![a] = <<>>]
        /\ updateQueue' = [updateQueue EXCEPT ![a] = <<>>]

\* handleUpdate
HandleUpdate(a) ==
    /\ proc[a] = "running"
    /\ updateQueue[a] # <<>>
    /\ LET msg == Head(updateQueue[a])
           req == msg.data.body
           stay == /\ updateQueue' = [updateQueue EXCEPT ![a] = Tail(@)]
                   /\ UNCHANGED <<subQueue, handling, pingQueue, discoverQueue,
                                  version, proc>>
       IN IF ~CanRead(msg.data, secretKey)
          THEN stay /\ UNCHANGED <<worker, replies, cli>>
          ELSE IF version[a] = req.target_version
          THEN stay /\ Respond(msg, UpdateResponse(req.request_id, TRUE))
          ELSE \E outcome \in UpdateOutcomes, flushed \in BOOLEAN :
                 /\ IF outcome = "updated" /\ ~flushed
                    THEN Unsent(msg, UpdateResponse(req.request_id, TRUE))
                    ELSE Respond(msg, UpdateResponse(req.request_id, outcome = "updated"))
                 /\ IF outcome = "updated" THEN Restart(a, req.target_version) ELSE stay
    /\ UNCHANGED <<planVars, deploy, box, conn, host, calls, disk, mainVars, semaphore, resultCh, emitted, injected>>

\* --------------------------------- stapply-ctl ping | discover | update
\* the key a one-shot command encrypts its request with and decrypts the
\* reply with: cmdPing takes the -sec flag only, cmdDiscover the flag and
\* then STAPPLY_SHARED_KEY, cmdUpdate has no key at all
EffectiveKey(cmd, sec, env) ==
    CASE cmd = "ping" -> sec
      [] cmd = "discover" -> IF sec # "" THEN sec ELSE env
      [] cmd = "update" -> ""

CliKey == EffectiveKey(cli.cmd, cli.sec, cli.env)

\* the id NewPingRequest, NewDiscoverRequest, NewUpdateRequest generate
CliID(n) == generateID(-1, n)

\* a command up to its nc.Request: build the request, encrypt it when the
\* command holds a key, publish it on the agent's subject
CliRequest(a, cmd, sec, env, body) ==
    LET data == Seal(body, EffectiveKey(cmd, sec, env))
        msg == [reply |-> CliInbox(cli.n + 1), data |-> data]
    IN /\ cli.pc = "off"
       /\ cli' = [n |-> cli.n + 1, cmd |-> cmd, sec |-> sec, env |-> env,
                  pc |-> "wait", sent |-> <<data>>, reply |-> <<>>, exit |-> <<>>]
       /\ pingQueue' = IF cmd = "ping" THEN Enqueue(pingQueue, a, msg) ELSE pingQueue
       /\ discoverQueue' = IF cmd = "discover"
                           THEN Enqueue(discoverQueue, a, msg) ELSE discoverQueue
       /\ updateQueue' = IF cmd = "update"
                         THEN Enqueue(updateQueue, a, msg) ELSE updateQueue
       /\ UNCHANGED <<planVars, deploy, box, conn, host, calls, disk, mainVars, semaphore, resultCh, worker, agentVars,
                      version, proc, emitted, injected>>

\* cmdPing up to nc.Request
CmdPing(a) ==
    \E sec \in Keys, env \in Keys :
        CliRequest(a, "ping", sec, env, NewPingRequest(CliID(cli.n + 1)))

\* cmdDiscover up to nc.Request
CmdDiscover(a) ==
    \E sec \in Keys, env \in Keys :
        CliRequest(a, "discover", sec, env, DiscoverRequest(CliID(cli.n + 1)))

\* cmdUpdate up to nc.Request: it defines no -sec flag
CmdUpdate(a) ==
    \E env \in Keys, v \in Versions :
        CliRequest(a, "update", "", env, NewUpdateRequest(CliID(cli.n + 1), v, "url"))

\* the command after nc.Request returned a message: decrypt when it holds
\* a key, parse, print; log.Fatalf exits 1, a failed update exits 1
CliReply ==
    /\ cli.pc = "wait"
    /\ cli.reply # <<>>
    /\ LET data == cli.reply[1]
           failed == /\ cli.cmd = "update"
                     /\ "success" \in DOMAIN data.body
                     /\ ~data.body.success
       IN cli' = [cli EXCEPT !.pc = "done",
                             !.exit = IF CanRead(data, CliKey) /\ ~failed
                                      THEN <<0>> ELSE <<1>>]
    /\ UNCHANGED <<planVars, deploy, box, conn, host, calls, disk, adminVars, mainVars, semaphore, resultCh, worker,
                   agentVars, emitted>>

\* nc.Request returned nats.ErrTimeout
CliTimeout ==
    /\ cli.pc = "wait"
    /\ cli.reply = <<>>
    /\ cli' = [cli EXCEPT !.pc = "done", !.exit = <<1>>]
    /\ UNCHANGED <<planVars, deploy, box, conn, host, calls, disk, adminVars, mainVars, semaphore, resultCh, worker,
                   agentVars, emitted>>

\* the operator invokes the next command
CliAgain ==
    /\ cli.pc = "done"
    /\ cli.n < MaxMsgs
    /\ cli' = [NoCommand EXCEPT !.n = cli.n]
    /\ UNCHANGED <<planVars, deploy, box, conn, host, calls, disk, adminVars, mainVars, semaphore, resultCh, worker,
                   agentVars, emitted>>

NextCtl ==
    \/ \E a \in Agents : CmdPing(a)
    \/ \E a \in Agents : CmdDiscover(a)
    \/ \E a \in Agents : CmdUpdate(a)
    \/ CliReply
    \/ CliTimeout
    \/ CliAgain
    \/ \E a \in Agents : HandlePing(a)
    \/ \E a \in Agents : HandleDiscover(a)
    \/ \E a \in Agents : HandleUpdate(a)

\* ---------------------------------------- handleUpdate, step by step
\* mutant: a failure answered as a success
UpdateFailure_success(requestID, err) ==
    [request_id |-> requestID, success |-> TRUE, error |-> err]

\* &protocol.UpdateResponse{RequestID, Success: false, Error}
UpdateFailure(requestID, err) ==
    [request_id |-> requestID, success |-> FALSE, error |-> err]

\* sendUpdateResponse: Marshal, Encrypt under the agent's key, msg.Respond,
\* which leaves the reply in the connection's write buffer
Buffered(d, resp) ==
    [d EXCEPT !.out = Append(@, [to |-> d.msg[1].reply, data |-> Seal(resp, secretKey)])]

\* a failure branch of handleUpdate: the reply, then return
Failed(d, err) ==
    [Buffered(d, UpdateFailure(d.msg[1].data.body.request_id, err))
        EXCEPT !.pc = "idle", !.events = Append(@, err)]

UpdateFrame ==
    UNCHANGED <<planVars, deploy, box, conn, host, calls, cli, mainVars, semaphore, resultCh, worker,
                agentVars, emitted, injected, pingQueue, discoverQueue>>

\* handleUpdate up to the download: decrypt, parse, compare versions
UpdateBegin(a) ==
    /\ proc[a] = "running" /\ disk[a].pc = "idle"
    /\ updateQueue[a] # <<>>
    /\ LET msg == Head(updateQueue[a])
           req == msg.data.body
           d == [disk[a] EXCEPT !.msg = <<msg>>, !.events = <<>>]
       IN disk' = [disk EXCEPT ![a] =
              IF ~CanRead(msg.data, secretKey) THEN disk[a]
              ELSE IF version[a] = req.target_version
              THEN Buffered(d, UpdateResponse(req.request_id, TRUE))
              ELSE [d EXCEPT !.pc = "download"]]
    /\ updateQueue' = [updateQueue EXCEPT ![a] = Tail(@)]
    /\ UNCHANGED <<version, proc>>
    /\ UpdateFrame

\* downloadBinary(req.BinaryURL, executable + ".new"): os.Create may fail,
\* http.Get or io.Copy may fail after the file was created
UpdateDownload(a) ==
    /\ proc[a] = "running" /\ disk[a].pc = "download"
    /\ \E outcome \in {"create failed", "get failed", "ok"} :
          LET d == disk[a]
              target == d.msg[1].data.body.target_version
          IN disk' = [disk EXCEPT ![a] =
                 CASE outcome = "create failed" -> Failed(d, "download failed")
                   [] outcome = "get failed" ->
                        Failed([d EXCEPT !.tmp = <<"partial">>], "download failed")
                   [] OTHER -> [d EXCEPT !.tmp = <<target>>, !.pc = "chmod"]]
    /\ UNCHANGED <<updateQueue, version, proc>>
    /\ UpdateFrame

\* os.Chmod(tmpPath, 0755); os.Remove(tmpPath) when it fails
UpdateChmod(a) ==
    /\ proc[a] = "running" /\ disk[a].pc = "chmod"
    /\ \E ok \in BOOLEAN :
          disk' = [disk EXCEPT ![a] =
              IF ok THEN [@ EXCEPT !.pc = "rename"]
              ELSE Failed([@ EXCEPT !.tmp = <<>>], "chmod failed")]
    /\ UNCHANGED <<updateQueue, version, proc>>
    /\ UpdateFrame

\* os.Rename(tmpPath, executable); os.Remove(tmpPath) when it fails
UpdateRename(a) ==
    /\ proc[a] = "running" /\ disk[a].pc = "rename"
    /\ \E ok \in BOOLEAN :
          disk' = [disk EXCEPT ![a] =
              IF ok THEN [@ EXCEPT !.exe = disk[a].tmp[1], !.tmp = <<>>, !.pc = "respond",
                                   !.events = Append(@, "rename")]
              ELSE Failed([@ EXCEPT !.tmp = <<>>], "replace failed")]
    /\ UNCHANGED <<updateQueue, version, proc>>
    /\ UpdateFrame

\* sendUpdateResponse(msg, success) after the rename
UpdateRespond(a) ==
    /\ proc[a] = "running" /\ disk[a].pc = "respond"
    /\ disk' = [disk EXCEPT ![a] =
           [Buffered(@, UpdateResponse(@.msg[1].data.body.request_id, TRUE))
               EXCEPT !.pc = "drain", !.events = Append(@, "respond")]]
    /\ UNCHANGED <<updateQueue, version, proc>>
    /\ UpdateFrame

\* nc.Drain(): it starts the drain and returns
UpdateDrain(a) ==
    /\ proc[a] = "running" /\ disk[a].pc = "drain"
    /\ disk' = [disk EXCEPT ![a].pc = "restart", ![a].events = Append(@, "drain")]
    /\ UNCHANGED <<updateQueue, version, proc>>
    /\ UpdateFrame

\* isRunningUnderSystemd: os.Exit(0); otherwise syscall.Exec of the
\* executable, os.Exit(1) when it fails. What the connection had not
\* written goes with the process, and so do the messages it had pending
UpdateRestart(a) ==
    /\ proc[a] = "running" /\ disk[a].pc = "restart"
    /\ \E how \in {"exit 0", "exec", "exec failed"} :
          /\ disk' = [disk EXCEPT ![a] =
                 [@ EXCEPT !.pc = IF how = "exec" THEN "idle" ELSE "gone",
                           !.out = <<>>, !.events = Append(@, how)]]
          /\ proc' = [proc EXCEPT ![a] = IF how = "exec" THEN "running" ELSE "exited"]
          /\ version' = [version EXCEPT ![a] = IF how = "exec" THEN disk[a].exe ELSE @]
    /\ updateQueue' = [updateQueue EXCEPT ![a] = <<>>]
    /\ UpdateFrame

\* the connection writes the oldest buffered reply to the broker, which
\* hands it to the requester
Flush(a) ==
    /\ proc[a] = "running"
    /\ disk[a].out # <<>>
    /\ LET m == Head(disk[a].out) IN
          /\ Deliver(m.to, m.data)
          /\ CliDeliver(m.to, m.data)
          /\ replies' = replies (+) SetToBag({[to |-> m.to,
                                               request_id |-> m.data.body.request_id]})
    /\ disk' = [disk EXCEPT ![a].out = Tail(@)]
    /\ UNCHANGED <<planVars, deploy, box, conn, host, calls, mainVars, semaphore, resultCh, subQueue,
                   handling, emitted, adminVars>>

\* Restart=always of the service unit: the executable on disk is started
ServiceStart(a) ==
    /\ proc[a] = "exited"
    /\ disk[a].events # <<>> /\ disk[a].events[Len(disk[a].events)] = "exit 0"
    /\ disk[a].pc = "gone"
    /\ proc' = [proc EXCEPT ![a] = "running"]
    /\ version' = [version EXCEPT ![a] = disk[a].exe]
    /\ disk' = [disk EXCEPT ![a].pc = "idle"]
    /\ UNCHANGED updateQueue
    /\ UpdateFrame

NextUpdate ==
    \/ \E a \in Agents : CmdUpdate(a)
    \/ CliReply
    \/ CliTimeout
    \/ CliAgain
    \/ \E a \in Agents : UpdateBegin(a)
    \/ \E a \in Agents : UpdateDownload(a)
    \/ \E a \in Agents : UpdateChmod(a)
    \/ \E a \in Agents : UpdateRename(a)
    \/ \E a \in Agents : UpdateRespond(a)
    \/ \E a \in Agents : UpdateDrain(a)
    \/ \E a \in Agents : UpdateRestart(a)
    \/ \E a \in Agents : Flush(a)
    \/ \E a \in Agents : ServiceStart(a)

\* an agent alone on the bus, no run in progress
InitAgent ==
    /\ envHosts = <<>>
    /\ envApps = <<>>
    /\ envConcurrency = 0
    /\ key \in Keys
    /\ secretKey \in Keys
    /\ Start

NextAgent ==
    \/ \E a \in Agents : Inject(a)
    \/ \E a \in Agents : HandlePing(a)
    \/ \E a \in Agents : AgentReceive(a)
    \/ \E a \in Agents : AgentRespond(a)
    \/ \E a \in Agents : HandleDiscover(a)
    \/ \E a \in Agents : HandleUpdate(a)

SpecAgent == InitAgent /\ [][NextAgent]_vars

\* an operator at the command line and an agent
SpecCtl == InitAgent /\ [][NextCtl]_vars

\* an operator updating an agent, handleUpdate taken step by step
SpecUpdate == InitAgent /\ [][NextUpdate]_vars

\* ------------------------------------------ a run on a bus with other peers
\* another peer publishes on the inbox of the outstanding request a reply
\* the controller can read: the reply to an earlier request of the worker,
\* or one with an id the controller never generated
ForeignReply(w) ==
    /\ worker[w].pc \in {"wait", "cwait"}
    /\ worker[w].inbox = <<>>
    /\ \E id \in {generateID(0, 0)}
                  \cup {generateID(w, g) : g \in {x \in {worker[w].seq - 1} : x >= 1}} :
           worker' = [worker EXCEPT
               ![w].inbox = <<Seal(NewRunResponse(id, TRUE, 0), key)>>]
    /\ UNCHANGED <<planVars, deploy, box, conn, host, calls, disk, adminVars, cli, mainVars, semaphore, resultCh, agentVars, emitted>>

NextOpen ==
    \/ Next
    \/ \E w \in Workers : ForeignReply(w)

OpenInit == Init /\ Len(envHosts) <= 1

SpecOpen == OpenInit /\ [][NextOpen]_vars

\* ------------------------------------ a run with every pairing of keys
\* STAPPLY_SHARED_KEY as set, unset or set differently on the two sides
MoreKeys == Keys \cup {"k2"}

KeysInit ==
    /\ envHosts \in SubSeqs(HostUniverse, 1)
    /\ envApps \in SubSeqs(AppUniverse, MaxApps)
    /\ envConcurrency \in Concurrencies
    /\ key \in MoreKeys
    /\ secretKey \in MoreKeys
    /\ Start

SpecKeys == KeysInit /\ [][Next]_vars


\* the Go scheduler runs every runnable goroutine, and every nc.Request
\* returns: with a message or with an error
MainNext == Spawn \/ SpawnDone \/ Collect1 \/ Summary
WorkerNext(w) ==
    /\ w \in Workers
    /\ \/ WorkerStart(w) \/ WorkerApp(w) \/ WorkerStep(w) \/ WorkerReply(w)
       \/ WorkerTimeout(w) \/ WorkerChunk(w) \/ WorkerChunkReply(w)
       \/ WorkerChunkTimeout(w) \/ WorkerSend(w) \/ WorkerRelease(w)

LiveInit == Init /\ key = secretKey /\ envConcurrency \in {0, 1} /\ Len(envApps) <= 1

LiveSpec ==
    /\ LiveInit /\ [][Next]_vars
    /\ WF_vars(MainNext \/ \E w \in Workers : WorkerNext(w))

\* ----------------------------------------- internal/actions on a host
\* the user the agent runs as, and what chmod and chown accept
AgentUser == "root:root"
ValidModes == {"0644", "0600", "0755"}
ValidOwners == {"root:root", "app:app"}

\* computeHash: SHA256, equal for equal contents only
computeHash(data) == <<"sha256", data>>

Ok(h) == [ok |-> TRUE, host |-> h]
Fail(h) == [ok |-> FALSE, host |-> h]

\* os.ReadFile succeeds on an existing file
Exists(h, path) == h.files[path] # <<>>

\* os.WriteFile(path, data, perm): creates the file with perm or truncates
\* the existing one, keeping its mode and owner; fails without the directory
OsWriteFile(h, path, data, perm) ==
    IF Dir(path) \notin h.dirs THEN Fail(h)
    ELSE Ok([h EXCEPT !.files[path] =
                IF Exists(h, path) THEN <<[@[1] EXCEPT !.content = data]>>
                ELSE <<[content |-> data, mode |-> perm, owner |-> AgentUser]>>])

\* applyMode: strconv.ParseUint(modeStr, 8, 32), then os.Chmod
applyMode(h, path, modeStr) ==
    IF modeStr \notin ValidModes \/ ~Exists(h, path) THEN Fail(h)
    ELSE Ok([h EXCEPT !.files[path][1].mode = modeStr])

\* applyOwner: user:group wanted, then chown
applyOwner(h, path, owner) ==
    IF owner \notin ValidOwners \/ ~Exists(h, path) THEN Fail(h)
    ELSE Ok([h EXCEPT !.files[path][1].owner = owner])

\* what an action returns together with the host it leaves behind;
\* forked: a process was started (sh -c, systemctl, chown)
Done(h, resp, forked) == [host |-> h, resp |-> resp, forked |-> forked]

\* mutant: the content written without comparing hashes
HashDiffers_always(h, path, data) == TRUE

\* the change detection of a real run of write_file and template_file:
\* TRUE unless the file is read and hashes the same
HashDiffers(h, path, data) ==
    ~(Exists(h, path) /\ computeHash(h.files[path][1].content) = computeHash(data))

\* mutant: the dry run looks only at whether the file exists
DryRunChanged_exists(h, path, data) == ~Exists(h, path)

\* the dry run's own change detection: TRUE unless the file is read and
\* hashes the same
DryRunChanged(h, path, data) ==
    ~(Exists(h, path) /\ computeHash(h.files[path][1].content) = computeHash(data))

\* what write_file and template_file do after the hash comparison: write
\* when changed, apply args.mode, apply args.owner (write_file only)
WriteAndApply(h, requestID, path, data, args, withOwner) ==
    LET changed == HashDiffers(h, path, data)
        w == IF changed THEN OsWriteFile(h, path, data, "0644") ELSE Ok(h)
        m == IF Lookup(args, "mode") # "" THEN applyMode(w.host, path, args.mode)
             ELSE Ok(w.host)
        o == IF withOwner /\ Lookup(args, "owner") # ""
             THEN applyOwner(m.host, path, args.owner) ELSE Ok(m.host)
        chowned == withOwner /\ Lookup(args, "owner") \in ValidOwners
    IN IF ~w.ok THEN Done(h, NewErrorResponse(requestID, "write failed"), FALSE)
       ELSE IF ~m.ok THEN Done(w.host, NewErrorResponse(requestID, "invalid mode"), FALSE)
       ELSE IF ~o.ok THEN Done(m.host, NewErrorResponse(requestID, "chown failed"), chowned)
       ELSE Done(o.host, NewRunResponse(requestID, changed, 0), chowned)

\* WriteFileAction.Execute
WriteFileAction(h, requestID, args, dryRun) ==
    IF MissingArg("write_file", args) # ""
    THEN Done(h, NewErrorResponse(requestID, "missing required argument"), FALSE)
    ELSE IF dryRun
    THEN IF Dir(args.path) \notin h.dirs
         THEN Done(h, NewErrorResponse(requestID, "dry run: directory does not exist"), FALSE)
         ELSE Done(h, NewRunResponse(requestID,
                          DryRunChanged(h, args.path, args.content), 0), FALSE)
    ELSE WriteAndApply(h, requestID, args.path, args.content, args, TRUE)

\* text/template: Parse fails on an unclosed action; Execute prints the
\* value of .v, "<no value>" when vars has none, and copies other text
ParseOk(templateText) == templateText # "{{"
Render(templateText, tvars) ==
    IF templateText = "{{.v}}"
    THEN <<IF "v" \in DOMAIN tvars THEN tvars.v ELSE "<no value>">>
    ELSE <<templateText>>

\* TemplateFileAction.Execute
TemplateFileAction(h, requestID, args, dryRun) ==
    IF MissingArg("template_file", args) # ""
    THEN Done(h, NewErrorResponse(requestID, "missing required argument"), FALSE)
    ELSE IF ~ParseOk(args.template)
    THEN Done(h, NewErrorResponse(requestID, "template parse error"), FALSE)
    ELSE LET tvars == IF "vars" \in DOMAIN args THEN args.vars ELSE <<>>
             renderedContent == Render(args.template, tvars)
         IN IF dryRun
            THEN Done(h, NewRunResponse(requestID,
                             DryRunChanged(h, args.path, renderedContent), 0), FALSE)
            ELSE WriteAndApply(h, requestID, args.path, renderedContent, args, FALSE)

\* the executables exec.LookPath finds
PATH == {"true", "false", "touch"}

\* os.Stat succeeds on a file or a directory that exists
StatOk(h, path) == path \in h.dirs \/ (path \in Paths /\ Exists(h, path))

\* sh -c command: the host it leaves and its exit code
Sh(h, command) ==
    LET exe == command[1].v IN
    IF exe \notin PATH THEN [host |-> h, exit |-> 127]
    ELSE IF exe = "false" THEN [host |-> h, exit |-> 1]
    ELSE IF exe = "touch"
    THEN LET path == command[2].v IN
         IF Exists(h, path) THEN [host |-> h, exit |-> 0]
         ELSE LET w == OsWriteFile(h, path, <<>>, "0644") IN
              [host |-> w.host, exit |-> IF w.ok THEN 0 ELSE 1]
    ELSE [host |-> h, exit |-> 0]

\* CmdAction.Execute on the host
CmdExecute(h, requestID, args, dryRun) ==
    IF MissingArg("cmd", args) # ""
    THEN Done(h, NewErrorResponse(requestID, "missing required argument"), FALSE)
    ELSE IF dryRun
    THEN Done(h, NewRunResponse(requestID, args.command[1].v \in PATH, 0), FALSE)
    ELSE IF Lookup(args, "creates") # "" /\ StatOk(h, args.creates)
    THEN Done(h, [request_id |-> requestID, status |-> StatusOK, changed |-> FALSE,
                  exit_code |-> 0, error |-> ""], FALSE)
    ELSE LET r == Sh(h, args.command) IN
         Done(r.host, NewRunResponse(requestID, TRUE, r.exit), TRUE)

\* the units installed on the host; host.enabled and host.active are the
\* state of the unit "u"
Units == {"u"}

\* systemctl <action> <unit>: the host it leaves and its exit code; a unit
\* that is not installed makes it exit with 5
Systemctl(h, action, unit) ==
    IF action # "daemon-reload" /\ unit \notin Units THEN [host |-> h, exit |-> 5]
    ELSE [host |-> CASE action = "start" -> [h EXCEPT !.active = TRUE]
                     [] action = "restart" -> [h EXCEPT !.active = TRUE]
                     [] action = "stop" -> [h EXCEPT !.active = FALSE]
                     [] action = "enable" -> [h EXCEPT !.enabled = TRUE]
                     [] action = "disable" -> [h EXCEPT !.enabled = FALSE]
                     [] OTHER -> h,
          exit |-> 0]

\* isServiceEnabled: systemctl is-enabled <unit> prints "enabled"
isServiceEnabled(h, unit) == unit \in Units /\ h.enabled

\* isServiceActive: systemctl is-active <unit> prints "active"
isServiceActive(h, unit) == unit \in Units /\ h.active

\* mutant: enable and disable reported as a change whatever the unit's state
checkEnabledStateChange_always(h, unit, action) == TRUE

\* checkEnabledStateChange
checkEnabledStateChange(h, unit, action) ==
    LET isEnabled == isServiceEnabled(h, unit) IN
    CASE action = "enable" -> ~isEnabled
      [] action = "disable" -> isEnabled
      [] OTHER -> TRUE

\* checkActiveStateChange
checkActiveStateChange(h, unit, action) ==
    LET isActive == isServiceActive(h, unit) IN
    CASE action = "start" -> ~isActive
      [] action = "stop" -> isActive
      [] OTHER -> TRUE

\* SystemdAction.Execute(requestID, args): it takes no dryRun
SystemdAction(h, requestID, args) ==
    IF MissingArg("systemd", args) # ""
    THEN Done(h, NewErrorResponse(requestID, "missing required argument"), FALSE)
    ELSE IF args.action \notin {"enable", "disable", "start", "stop", "restart",
                                "daemon-reload"}
    THEN Done(h, NewErrorResponse(requestID, "invalid systemd action"), FALSE)
    ELSE LET unit == Lookup(args, "unit")
             changed ==
                 CASE args.action \in {"enable", "disable"} ->
                        checkEnabledStateChange(h, unit, args.action)
                   [] args.action \in {"start", "stop"} ->
                        checkActiveStateChange(h, unit, args.action)
                   [] args.action = "restart" -> isServiceActive(h, unit)
                   [] OTHER -> TRUE
             r == Systemctl(h, args.action, unit)
         IN Done(r.host, NewRunResponse(requestID, changed, r.exit), TRUE)

\* calculateSHA256 of a file received in chunks: the checksum of the source
\* file when every chunk of it arrived in order, another one otherwise
WholeFile(src) ==
    [i \in 1..TotalChunks(srcFiles[src]) |->
        <<src, i - 1, Min(chunkSize, srcFiles[src] - (i - 1) * chunkSize)>>]
calculateSHA256(content) ==
    IF content # <<>> /\ content = WholeFile(content[1][1])
    THEN <<"sha256", content[1][1]>>
    ELSE <<"sha256", content>>

\* DeployArtifactAction.Execute under the mutex: MkdirAll on the first
\* chunk, OpenFile with O_TRUNC or O_APPEND and the request's mode, Write
ChunkWrite(h, args) ==
    LET dest == args.dest
        made == IF args.chunk_index = 0
                THEN [h EXCEPT !.dirs = @ \cup {Dir(dest)}] ELSE h
        old == IF Exists(made, dest) /\ args.chunk_index # 0
               THEN made.files[dest][1].content ELSE <<>>
        file == IF Exists(made, dest)
                THEN [made.files[dest][1] EXCEPT !.content = Append(old, args.chunk_data)]
                ELSE [content |-> <<args.chunk_data>>,
                      mode |-> IF Lookup(args, "mode") \in ValidModes
                               THEN args.mode ELSE "0644",
                      owner |-> AgentUser]
    IN IF Dir(dest) \notin made.dirs THEN Fail(made)
       ELSE Ok([made EXCEPT !.files[dest] = <<file>>])

\* the final verification: the chunk is the last one and the file does
\* not hash to the checksum the request declares
ChecksumMismatch(h, args) ==
    /\ args.chunk_index = args.total_chunks - 1
    /\ args.checksum # <<>>
    /\ calculateSHA256(h.files[args.dest][1].content) # args.checksum

\* DeployArtifactAction.Execute
DeployArtifactAction(h, requestID, args, dryRun) ==
    IF MissingArg("deploy_artifact", args) # ""
    THEN Done(h, NewErrorResponse(requestID, "missing argument"), FALSE)
    ELSE IF dryRun THEN Done(h, NewRunResponse(requestID, FALSE, 0), FALSE)
    ELSE LET dest == args.dest
             w == ChunkWrite([h EXCEPT !.locks = @ \cup {dest}], args)
         IN IF ~w.ok
            THEN Done(w.host, NewErrorResponse(requestID, "failed to open file"), FALSE)
            ELSE IF args.chunk_index # args.total_chunks - 1
            THEN Done(w.host, NewRunResponse(requestID, TRUE, 0), FALSE)
            ELSE IF ChecksumMismatch(w.host, args)
            THEN Done(w.host, NewErrorResponse(requestID, "checksum mismatch"), FALSE)
            ELSE Done([w.host EXCEPT !.locks = @ \ {dest}],
                      NewRunResponse(requestID, TRUE, 0), FALSE)

\* Registry.Execute on the host
RegistryExecute(h, req) ==
    CASE req.action = "cmd" -> CmdExecute(h, req.request_id, req.args, req.dry_run)
      [] req.action = "write_file" ->
            WriteFileAction(h, req.request_id, req.args, req.dry_run)
      [] req.action = "template_file" ->
            TemplateFileAction(h, req.request_id, req.args, req.dry_run)
      [] req.action = "systemd" -> SystemdAction(h, req.request_id, req.args)
      [] req.action = "deploy_artifact" ->
            DeployArtifactAction(h, req.request_id, req.args, req.dry_run)
      [] OTHER -> Done(h, NewErrorResponse(req.request_id, "unknown action type"), FALSE)

\* the arguments of the run requests sent to the host, per verb
Contents == {<<"x">>, <<"y">>}
HostArgs(actionName) ==
    CASE actionName = "write_file" ->
            {[path |-> "/etc/a", content |-> c] : c \in Contents}
            \cup {[path |-> "/etc/a", content |-> c, mode |-> "0600"] : c \in Contents}
            \cup {[path |-> "/etc/a", content |-> c, owner |-> "app:app"] : c \in Contents}
            \cup {[path |-> "/etc/a", content |-> <<"x">>, mode |-> "rw"],
                  [path |-> "/missing/a", content |-> <<"x">>]}
      [] actionName = "template_file" ->
            {[path |-> "/etc/a", template |-> "{{.v}}", vars |-> [v |-> c[1]]] :
                c \in Contents}
            \cup {[path |-> "/etc/a", template |-> "{{"],
                  [path |-> "/etc/a", template |-> "x", mode |-> "0600"]}
      [] actionName = "cmd" ->
            LET commands == {<<Word("touch"), Word("/etc/a")>>, <<Word("false")>>,
                             <<Word("nosuch")>>}
            IN {[command |-> c] : c \in commands}
               \cup {[command |-> c, creates |-> "/etc/a"] : c \in commands}
      [] actionName = "systemd" ->
            {[action |-> a, unit |-> "u"] :
                a \in {"start", "stop", "enable", "disable", "restart"}}
            \cup {[action |-> "daemon-reload"], [action |-> "enable", unit |-> "v"]}
      [] actionName = "deploy_artifact" ->
            {ChunkArgs("f1", "/opt/app/bin", i) : i \in {0, 1}}

\* what the history keeps of the last request: the request, the reply,
\* the file its path named and the unit as they were before, and whether the request
\* before it was the same one, not a dry run, and succeeded
LastRun(h, req, r) ==
    LET path == IF "path" \in DOMAIN req.args THEN req.args.path ELSE "" IN
    [action |-> req.action, args |-> req.args, dry_run |-> req.dry_run,
     resp |-> r.resp, forked |-> r.forked,
     before |-> IF path \in Paths THEN h.files[path] ELSE <<>>,
     unit |-> [enabled |-> h.enabled, active |-> h.active],
     again |-> /\ h.last # <<>>
               /\ ~req.dry_run /\ ~h.last[1].dry_run
               /\ h.last[1].action = req.action /\ h.last[1].args = req.args
               /\ h.last[1].resp.status = StatusOK]

\* handleRun on the host: registry.Execute of one run request
HostRunOf(actionName, requestArgs) ==
    /\ \E args \in requestArgs, dryRun \in BOOLEAN :
          LET req == NewRunRequest(generateID(0, 1), actionName, args, dryRun)
              r == RegistryExecute(host, req)
          IN /\ \A p \in Paths :
                   Exists(r.host, p) => Len(r.host.files[p][1].content) <= MaxFileChunks
             /\ host' = [r.host EXCEPT !.last = <<LastRun(host, req, r)>>]
    /\ UNCHANGED <<planVars, deploy, box, conn, calls, disk, adminVars, cli, mainVars, semaphore, resultCh, worker,
                   agentVars, emitted>>

HostRun(actionName) == HostRunOf(actionName, HostArgs(actionName))

NextHost ==
    \/ HostRun("cmd")
    \/ HostRun("write_file")
    \/ HostRun("template_file")
    \/ HostRun("systemd")
    \/ HostRun("deploy_artifact")

\* one agent's host under a sequence of run requests
HostInit == InitAgent /\ key = "" /\ secretKey = ""

SpecHost == HostInit /\ [][NextHost]_vars

\* the deploy_artifact requests a host may get: the chunks of f1 and of f2
\* as runDeployArtifact sends them, and the final chunk of f1 from a peer
\* that declares no checksum
ChunkRequests ==
    {ChunkArgs("f1", d, i) : d \in Dests, i \in {0, 1}}
    \cup {ChunkArgs("f2", d, 0) : d \in Dests}
    \cup {[ChunkArgs("f1", "/opt/app/bin", 1) EXCEPT !.checksum = <<>>]}

ArtifactRun == HostRunOf("deploy_artifact", ChunkRequests)

\* one agent's host under a sequence of deploy_artifact requests
SpecArtifact == HostInit /\ [][ArtifactRun]_vars

\* ------------------- DeployArtifactAction.Execute called concurrently
\* the requests of the calls: the two chunks of f1 and the only chunk of
\* f2, for either destination
LockArgs ==
    {ChunkArgs("f1", d, i) : d \in Dests, i \in {0, 1}}
    \cup {ChunkArgs("f2", d, 0) : d \in Dests}

\* a mutex is locked while a call that locked it has not run its deferred
\* Unlock
Locked(mutex) ==
    \E g \in Goroutines :
        calls.g[g].pc \in {"locked", "return"} /\ calls.g[g].mutex = <<mutex>>

\* mutant: the entry of the destination kept after the final chunk
Delete_keep(fileLocks, dest) == fileLocks

\* a.fileLocks.Delete(destPath)
Delete(fileLocks, dest) == [fileLocks EXCEPT ![dest] = <<>>]

\* lockVal, _ := a.fileLocks.LoadOrStore(destPath, &sync.Mutex{}): the
\* mutex of the entry, a new one stored when there is no entry
ExecuteLoadOrStore(g) ==
    /\ calls.g[g].pc = "idle"
    /\ \E args \in LockArgs :
          LET dest == args.dest
              mutex == IF calls.fileLocks[dest] = <<>> THEN <<"mutex", g>>
                       ELSE calls.fileLocks[dest][1]
          IN /\ calls' = [calls EXCEPT !.fileLocks[dest] = <<mutex>>,
                                       !.g[g] = [pc |-> "wait", args |-> <<args>>,
                                                 mutex |-> <<mutex>>, resp |-> <<>>]]
             /\ host' = [host EXCEPT !.locks = @ \cup {dest}]
    /\ UNCHANGED <<planVars, deploy, box, conn, disk, adminVars, cli, mainVars, semaphore, resultCh, worker,
                   agentVars, emitted>>

\* mutex.Lock()
ExecuteLock(g) ==
    /\ calls.g[g].pc = "wait"
    /\ ~Locked(calls.g[g].mutex[1])
    /\ calls' = [calls EXCEPT !.g[g].pc = "locked"]
    /\ UNCHANGED <<planVars, deploy, box, conn, host, disk, adminVars, cli, mainVars, semaphore, resultCh,
                   worker, agentVars, emitted>>

\* the rest of Execute up to its return: the chunk written, the final
\* chunk verified and the entry of the destination deleted
ExecuteWrite(g) ==
    /\ calls.g[g].pc = "locked"
    /\ LET args == calls.g[g].args[1]
           id == generateID(0, g)
           w == ChunkWrite(host, args)
           final == args.chunk_index = args.total_chunks - 1
           resp == IF ~w.ok THEN NewErrorResponse(id, "failed to open file")
                   ELSE IF ChecksumMismatch(w.host, args)
                   THEN NewErrorResponse(id, "checksum mismatch")
                   ELSE NewRunResponse(id, TRUE, 0)
           deleted == final /\ resp.status = StatusOK
       IN /\ w.ok => Len(w.host.files[args.dest][1].content) <= MaxFileChunks
          /\ calls' = [calls EXCEPT !.g[g].pc = "return", !.g[g].resp = <<resp>>,
                                    !.fileLocks = IF deleted THEN Delete(@, args.dest)
                                                  ELSE @]
          /\ host' = IF deleted /\ Delete(calls.fileLocks, args.dest)[args.dest] = <<>>
                     THEN [w.host EXCEPT !.locks = @ \ {args.dest}] ELSE w.host
    /\ UNCHANGED <<planVars, deploy, box, conn, disk, adminVars, cli, mainVars, semaphore, resultCh, worker,
                   agentVars, emitted>>

\* defer mutex.Unlock()
ExecuteUnlock(g) ==
    /\ calls.g[g].pc = "return"
    /\ calls' = [calls EXCEPT !.g[g].pc = "done"]
    /\ UNCHANGED <<planVars, deploy, box, conn, host, disk, adminVars, cli, mainVars, semaphore, resultCh,
                   worker, agentVars, emitted>>

NextLocks ==
    \E g \in Goroutines :
        \/ ExecuteLoadOrStore(g)
        \/ ExecuteLock(g)
        \/ ExecuteWrite(g)
        \/ ExecuteUnlock(g)

\* one DeployArtifactAction under concurrent calls of Execute
SpecLocks == HostInit /\ [][NextLocks]_vars

\* --------------------------- runDeployArtifact against the agent's host
deployFrame ==
    <<planVars, box, conn, calls, disk, adminVars, cli, mainVars, semaphore, resultCh,
      worker, agentVars, emitted>>

\* os.Open(src), f.Stat(), the checksum: an error for a file that is not
\* there, the loop otherwise
DeployOpen ==
    /\ deploy.pc \in {"idle", "returned"}
    /\ deploy.n < MaxDeploys
    /\ \E src \in Sources, dest \in Dests :
          deploy' = IF src \notin DOMAIN srcFiles
                    THEN [NoDeploy EXCEPT !.pc = "returned", !.n = deploy.n + 1,
                                          !.src = src, !.dest = dest,
                                          !.err = <<"open src">>]
                    ELSE [NoDeploy EXCEPT !.pc = "loop", !.n = deploy.n + 1,
                                          !.src = src, !.dest = dest]
    /\ UNCHANGED <<deployFrame, host>>

\* for i := 0; i < totalChunks; i++: the chunk read and published, or the
\* loop left and nil returned
DeployChunk ==
    /\ deploy.pc = "loop"
    /\ LET totalSize == srcFiles[deploy.src]
           n == Min(chunkSize, totalSize - deploy.i * chunkSize)
       IN IF deploy.i >= TotalChunks(totalSize) \/ n = 0
          THEN deploy' = [deploy EXCEPT !.pc = "returned", !.err = <<"">>]
          ELSE LET args == ChunkArgs(deploy.src, deploy.dest, deploy.i)
                   req == NewRunRequest(generateID(0, deploy.i + 1), "deploy_artifact",
                                        args, FALSE)
               IN deploy' = [deploy EXCEPT !.pc = "request", !.msg = <<req>>,
                                           !.reply = <<>>,
                                           !.sent = Append(@, args)]
    /\ UNCHANGED <<deployFrame, host>>

\* the agent's handleRun for the chunk: registry.Execute and the reply
DeployHandle ==
    /\ deploy.pc = "request"
    /\ deploy.msg # <<>>
    /\ LET req == deploy.msg[1]
           r == RegistryExecute(host, req)
       IN /\ host' = [r.host EXCEPT !.last = <<LastRun(host, req, r)>>]
          /\ deploy' = [deploy EXCEPT !.msg = <<>>, !.reply = <<r.resp>>]
    /\ UNCHANGED deployFrame

\* nc.Request returns the reply: the next chunk after status ok, the error
\* `chunk i failed` otherwise
DeployReply ==
    /\ deploy.pc = "request"
    /\ deploy.reply # <<>>
    /\ deploy' = IF deploy.reply[1].status # StatusOK
                 THEN [deploy EXCEPT !.pc = "returned", !.err = <<"chunk failed">>]
                 ELSE [deploy EXCEPT !.pc = "loop", !.i = @ + 1]
    /\ UNCHANGED <<deployFrame, host>>

\* nc.Request returns an error: no agent took the message in time
DeployTimeout ==
    /\ deploy.pc = "request"
    /\ deploy.msg # <<>>
    /\ deploy' = [deploy EXCEPT !.pc = "returned", !.msg = <<>>,
                                !.err = <<"send chunk">>]
    /\ UNCHANGED <<deployFrame, host>>

NextDeploy ==
    \/ DeployOpen
    \/ DeployChunk
    \/ DeployHandle
    \/ DeployReply
    \/ DeployTimeout

\* runDeployArtifact and the agent that receives its chunks
SpecDeploy == HostInit /\ [][NextDeploy]_vars

\* ------------------------------------------------------- internal/netutil
\* an address is its bytes: four of an IPv4 address, sixteen of an IPv6 one
Zeros(n) == [i \in 1..n |-> 0]
IPv6loopback == Zeros(15) \o <<1>>

\* ip.To4(): the four bytes of an IPv4 address or of an IPv4-mapped IPv6
\* address, <<>> for nil
To4(ip) ==
    IF Len(ip) = 4 THEN ip
    ELSE IF SubSeq(ip, 1, 10) = Zeros(10) /\ ip[11] = 255 /\ ip[12] = 255
    THEN SubSeq(ip, 13, 16)
    ELSE <<>>

\* ip.IsLoopback()
IsLoopback(ip) == IF To4(ip) # <<>> THEN To4(ip)[1] = 127 ELSE ip = IPv6loopback

\* b & mask[i] for the mask of a prefix of that many bits
MaskedByte(b, bits, i) ==
    LET rest == bits - 8 * (i - 1)
        kept == IF rest > 8 THEN 8 ELSE IF rest < 0 THEN 0 ELSE rest
        low == 2 ^ (8 - kept)
    IN (b \div low) * low

\* (*net.IPNet).Contains
Contains(network, ip) ==
    LET x == IF To4(ip) # <<>> THEN To4(ip) ELSE ip IN
        /\ Len(x) = Len(network.ip)
        /\ \A i \in 1..Len(x) :
              MaskedByte(network.ip[i], network.bits, i) = MaskedByte(x[i], network.bits, i)

\* net.ParseCIDR of a dotted prefix
CIDR(a, b, c, d, bits) == [ip |-> <<a, b, c, d>>, bits |-> bits]

\* RFC1918 and, appended, the CGNAT range
privateRanges ==
    <<CIDR(10, 0, 0, 0, 8), CIDR(172, 16, 0, 0, 12), CIDR(192, 168, 0, 0, 16),
      CIDR(100, 64, 0, 0, 10)>>

IsPrivateNetwork(ip) ==
    \/ IsLoopback(ip)
    \/ \E i \in 1..Len(privateRanges) : Contains(privateRanges[i], ip)

\* the names the resolver knows and the addresses it answers; <<>> is
\* "no such host"
Names ==
    {"localhost", "lan.example", "tail.example", "mixed.example", "pub.example",
     "nowhere.example"}
Resolver ==
    [n \in Names |->
        CASE n = "localhost" -> <<<<127, 0, 0, 1>>, IPv6loopback>>
          [] n = "lan.example" -> <<<<10, 1, 2, 3>>>>
          [] n = "tail.example" -> <<<<100, 100, 1, 1>>>>
          [] n = "mixed.example" -> <<<<203, 0, 113, 7>>, <<192, 168, 1, 10>>>>
          [] n = "pub.example" -> <<<<203, 0, 113, 7>>, <<198, 51, 100, 4>>>>
          [] OTHER -> <<>>]

\* addresses written as the host of a URL: the edges of each range
Literals ==
    {<<9, 255, 255, 255>>, <<10, 0, 0, 0>>, <<10, 255, 255, 255>>, <<11, 0, 0, 0>>,
     <<100, 63, 255, 255>>, <<100, 64, 0, 0>>, <<100, 127, 255, 255>>, <<100, 128, 0, 0>>,
     <<126, 255, 255, 255>>, <<127, 0, 0, 0>>, <<127, 255, 255, 255>>, <<128, 0, 0, 0>>,
     <<172, 15, 255, 255>>, <<172, 16, 0, 0>>, <<172, 31, 255, 255>>, <<172, 32, 0, 0>>,
     <<192, 167, 255, 255>>, <<192, 168, 0, 0>>, <<192, 168, 255, 255>>, <<192, 169, 0, 0>>}

\* the host of a URL: a name, or an address written out; br counts the
\* pairs of brackets around an address
NoHost == [name |-> "", lit |-> <<>>, br |-> 0]
Named(n) == [name |-> n, lit |-> <<>>, br |-> 0]
UrlHosts ==
    {Named(n) : n \in Names} \cup {[name |-> "", lit |-> <<ip>>, br |-> 0] : ip \in Literals}

\* net.LookupIP of u.Hostname(): an address written out resolves to itself;
\* Hostname() takes one pair of brackets off, and what keeps a bracket is
\* neither an address nor a name
LookupIP(h) ==
    IF h.br > 1 THEN <<>>
    ELSE IF h.lit # <<>> THEN h.lit
    ELSE IF h.name \in Names THEN Resolver[h.name] ELSE <<>>

\* net.JoinHostPort(u.Host, port): a host with a colon in it is put in
\* brackets, and u.Host of an IPv6 address has its brackets on already
JoinHostPort(h) ==
    IF h.lit # <<>> /\ Len(h.lit[1]) = 16 THEN [h EXCEPT !.br = @ + 1] ELSE h

\* a server string by its parts; "" is EmptyURL
EmptyURL == [scheme |-> "", host |-> NoHost, port |-> ""]
LocalURL == [scheme |-> "nats", host |-> Named("localhost"), port |-> "4222"]
Servers ==
    {[scheme |-> s, host |-> h, port |-> p] :
        s \in {"", "nats"}, h \in UrlHosts, p \in {"", "4222"}}

\* NormalizeNATSURL: "" stays; nats:// in front when there is no scheme;
\* JoinHostPort(u.Host, "4222") when there is no port
NormalizeNATSURL(server) ==
    IF server = EmptyURL THEN EmptyURL
    ELSE LET u == [server EXCEPT !.scheme = IF @ = "" THEN "nats" ELSE @]
         IN IF u.port = "" THEN [u EXCEPT !.host = JoinHostPort(@), !.port = "4222"]
            ELSE u

\* ValidateNATSURL: "" for nil, else the error
ValidateNATSURL(natsURL, allowPublic) ==
    LET hostname == natsURL.host
        ips == LookupIP(hostname)
        hasPrivateIP == \E i \in 1..Len(ips) : IsPrivateNetwork(ips[i])
    IN IF hostname = NoHost THEN "NATS URL missing hostname"
       ELSE IF ips = <<>> THEN "failed to resolve NATS hostname"
       ELSE IF ~hasPrivateIP /\ ~allowPublic THEN "resolves to public IP addresses"
       ELSE ""

\* ------------------------------------ stapply-ctl: validate, then connect
Commands == {"ping", "discover", "update", "run", "adhoc", "adhoc -c", "preflight"}
\* the subcommands whose argument is an agent id
ByAgent == {"ping", "discover", "update"}

\* STAPPLY_DEFAULT_NATS as getDefaultNATSURL lets it through
EnvDefaults == {EmptyURL, [EmptyURL EXCEPT !.host = Named("lan.example")]}

\* the subcommands that call fs.Parse(args) after defining their flags
Parses == {"ping", "discover", "update", "run", "adhoc", "adhoc -c"}

\* mutant: a flag read as if every subcommand had parsed its arguments
FlagValue_parsed(cmd, given, default) == given

\* *flag after the definitions of a subcommand: the value given on the
\* command line when the flag set was parsed, the default otherwise
FlagValue(cmd, given, default) == IF cmd \in Parses THEN given ELSE default

connFrame ==
    UNCHANGED <<planVars, deploy, box, mainVars, semaphore, resultCh, worker, agentVars, adminVars,
                emitted, cli, host, calls, disk>>

\* a subcommand from its flags to the result of ValidateNATSURL
CtlValidate ==
    /\ conn.pc = "start"
    /\ \E cmd \in Commands, envDefault \in EnvDefaults, allowPublic \in BOOLEAN,
          given \in {<<>>} \cup {<<u>> : u \in Servers}, arg \in Names \cup {""} :
          LET defaultNats == IF cmd \in ByAgent \/ envDefault # EmptyURL
                             THEN envDefault ELSE LocalURL
              nats == FlagValue(cmd, given, <<>>)
              flag == IF nats = <<>> THEN defaultNats ELSE nats[1]
              server == IF cmd \in ByAgent /\ flag = EmptyURL THEN Named(arg) ELSE flag.host
              natsURL == NormalizeNATSURL([flag EXCEPT !.host = server])
              public == FlagValue(cmd, allowPublic, FALSE)
              err == ValidateNATSURL(natsURL, public)
              c == [conn EXCEPT !.cmd = cmd, !.allowPublic = public, !.arg = arg]
          IN conn' =
                IF cmd \in ByAgent /\ arg = ""
                THEN [c EXCEPT !.pc = "exit", !.exit = <<1>>, !.usage = TRUE]
                ELSE IF err # ""
                THEN [c EXCEPT !.pc = "exit", !.exit = <<1>>, !.natsURL = natsURL,
                               !.err = err]
                ELSE [c EXCEPT !.pc = IF cmd \in ByAgent THEN "ready" ELSE "validated",
                               !.natsURL = natsURL, !.validated = <<natsURL>>]
    /\ connFrame

\* run, adhoc, preflight between the validation and the connect: usage,
\* configuration and environment checks, and in adhoc without -c the server
\* taken from the agent id when the URL is the built-in default
CtlPrepare ==
    /\ conn.pc = "validated"
    /\ \E configOk \in BOOLEAN :
          conn' =
             IF FlagValue(conn.cmd, conn.arg, "") = ""
             THEN [conn EXCEPT !.pc = "exit", !.exit = <<1>>, !.usage = TRUE]
             ELSE IF conn.cmd # "adhoc" /\ ~configOk
             THEN [conn EXCEPT !.pc = "exit", !.exit = <<1>>]
             ELSE IF conn.cmd = "adhoc" /\ conn.natsURL = LocalURL
             THEN [conn EXCEPT !.pc = "ready",
                               !.natsURL = NormalizeNATSURL([EmptyURL EXCEPT
                                                               !.host = Named(conn.arg)])]
             ELSE [conn EXCEPT !.pc = "ready"]
    /\ connFrame

\* nats.Connect(*natsURL), log.Fatalf when it fails
CtlConnect ==
    /\ conn.pc = "ready"
    /\ \E ok \in BOOLEAN :
          conn' = [conn EXCEPT !.dialled = <<conn.natsURL>>,
                               !.pc = IF ok THEN "connected" ELSE "exit",
                               !.exit = IF ok THEN <<>> ELSE <<1>>]
    /\ connFrame

NextNet == CtlValidate \/ CtlPrepare \/ CtlConnect

\* the controller from its command line to its connection
SpecNet == HostInit /\ [][NextNet]_vars

\* ------------------------------------------- NormalizeNATSURL on its own
\* IPv6 addresses written as the host of a URL, in their brackets
V6Literals == {IPv6loopback, <<253, 0>> \o Zeros(13) \o <<1>>}
V6Hosts == {[name |-> "", lit |-> <<ip>>, br |-> 1] : ip \in V6Literals}

\* the server strings given to NormalizeNATSURL
NormalizeInputs ==
    {EmptyURL} \cup
    {[scheme |-> s, host |-> h, port |-> p] :
        s \in {"", "nats", "tls"}, h \in UrlHosts \cup V6Hosts, p \in {"", "4222", "1234"}}

\* NormalizeNATSURL(server)
Normalize ==
    /\ conn.pc = "start"
    /\ \E server \in NormalizeInputs :
          conn' = [conn EXCEPT !.pc = "normalized", !.server = <<server>>,
                               !.natsURL = NormalizeNATSURL(server),
                               !.once = <<NormalizeNATSURL(server)>>]
    /\ connFrame

\* NormalizeNATSURL of what NormalizeNATSURL returned
NormalizeAgain ==
    /\ conn.pc = "normalized"
    /\ conn' = [conn EXCEPT !.pc = "twice", !.natsURL = NormalizeNATSURL(conn.natsURL)]
    /\ connFrame

NextNormalize == Normalize \/ NormalizeAgain

SpecNormalize == HostInit /\ [][NextNormalize]_vars

\* ------------------------------------- internal/security, call by call
\* the payloads given to Encrypt: none, one byte, a JSON text
Plaintexts == {"", "a", "{json}"}

\* DeriveKey: the SHA-256 of the secret, one key per secret
DeriveKey(secret) == <<"sha256", secret>>

\* mutant: the nonce left as make([]byte, n) gave it
ReadFull_zero(r) == 0

\* io.ReadFull(rand.Reader, nonce): the next bytes of the generator, which
\* gives no value twice
ReadFull(r) == r + 1

\* gcm.Seal(nonce, nonce, data, nil): the nonce, then the data sealed under
\* the key and the nonce
gcmSeal(k, nonce, data) == [nonce |-> nonce, k |-> k, data |-> data]

\* gcm.Open(nil, nonce, ciphertext, nil): the data when key and nonce are
\* those of the seal
gcmOpen(k, nonce, sealed) ==
    IF sealed.k = k /\ sealed.nonce = nonce
    THEN [err |-> "", text |-> <<sealed.data>>]
    ELSE [err |-> "cipher: message authentication failed", text |-> <<>>]

\* security.Encrypt with the generator at r
security_Encrypt(data, secret, r) ==
    IF secret = "" THEN [err |-> "secret key is empty", out |-> <<>>]
    ELSE [err |-> "", out |-> <<gcmSeal(DeriveKey(secret), ReadFull(r), data)>>]

\* security.Decrypt of what an Encrypt returned
security_Decrypt(data, secret) ==
    IF secret = "" THEN [err |-> "secret key is empty", text |-> <<>>]
    ELSE gcmOpen(DeriveKey(secret), data.nonce, data)

boxFrame ==
    UNCHANGED <<planVars, deploy, conn, mainVars, semaphore, resultCh, worker, agentVars,
                adminVars, emitted, cli, host, calls, disk>>

\* one call of Encrypt
EncryptCall ==
    /\ Len(box.sealed) < MaxSeals
    /\ \E x \in Plaintexts, k \in MoreKeys :
          LET res == security_Encrypt(x, k, box.rand) IN
             box' = [box EXCEPT
                        !.rand = IF k = "" THEN @ ELSE ReadFull(@),
                        !.sealed = Append(@, [x |-> x, k |-> k, err |-> res.err,
                                              out |-> res.out])]
    /\ boxFrame

\* one call of Decrypt on the result of an earlier Encrypt
DecryptCall ==
    /\ \E i \in 1..Len(box.sealed), k \in MoreKeys :
          /\ box.sealed[i].out # <<>>
          /\ LET res == security_Decrypt(box.sealed[i].out[1], k) IN
                box' = [box EXCEPT !.opened = <<[i |-> i, k |-> k, err |-> res.err,
                                                 text |-> res.text]>>]
    /\ boxFrame

NextEnvelope == EncryptCall \/ DecryptCall

SpecEnvelope == HostInit /\ [][NextEnvelope]_vars

\* ================================================================ claims
HostKnown(w) == envHosts[w] \in DOMAIN cfgHosts
AppKnown(i) == envApps[i] \in DOMAIN cfgApps
InFlight == {w \in Workers : worker[w].pc \notin {"idle", "done"}}
Finished(w) == worker[w].pc \in {"release", "done"}
Quiescent ==
    /\ mainPc = "done"
    /\ \A a \in Agents : subQueue[a] = <<>> /\ handling[a] = {}

\* C1: the per-host goroutines started and not yet finished number at most
\* min(C, N) for a ceiling C > 0, and at most N for C <= 0
C1_InFlightBound ==
    Cardinality(InFlight) <= IF envConcurrency > 0 THEN Min(envConcurrency, N) ELSE N

\* a ceiling of 1 with two hosts: the first goroutine waits for a reply and
\* the second has not been started
C1_Witness ==
    /\ envConcurrency = 1 /\ N = 2
    /\ spawned = 1 /\ worker[1].pc = "wait" /\ worker[2].pc = "idle"

\* C2: a worker publishes a request only when every earlier request of its
\* host has returned at the controller, and its requests go out by app in
\* listed order and, within an app, by ascending step number
EmittedBefore(r1, r2) ==
    \/ r1.app < r2.app
    \/ r1.app = r2.app /\ r1.n < r2.n
    \/ r1.app = r2.app /\ r1.n = r2.n /\ r1.chunk < r2.chunk

C2_PerHostOrder ==
    /\ \A w \in Workers :
          worker[w].seq = worker[w].returned
                          + (IF worker[w].pc \in {"wait", "cwait"} THEN 1 ELSE 0)
    /\ \A r1 \in emitted : \A r2 \in {r \in emitted : r.w = r1.w /\ r.g > r1.g} :
          EmittedBefore(r1, r2)

\* steps 1 and 3 of one app have both been published by one worker
C2_Witness ==
    \E r1 \in emitted : \E r2 \in emitted :
        /\ r1.w = r2.w /\ r1.app = r2.app /\ r1.g < r2.g
        /\ r1.n = 1
        /\ r2.n = 3

\* C3: an agent never has the actions of two requests of one host executing
\* at once, also after the controller timed out on the earlier one
HostOfMsg(msg) == msg.reply[2]
C3_OneActionPerHost ==
    \A a \in Agents : \A m1 \in handling[a] : \A m2 \in handling[a] :
        HostOfMsg(m1) = HostOfMsg(m2) => m1.reply = m2.reply

\* the controller gave up on a step whose action still executes, and the
\* request of the next step already waits at the agent
C3_Witness ==
    \E a \in Agents : \E m \in handling[a] :
        /\ subQueue[a] # <<>>
        /\ HostOfMsg(Head(subQueue[a])) = HostOfMsg(m)
        /\ worker[HostOfMsg(m)].returned >= m.reply[3]

\* C4: a step's outcome moves exactly one counter: ok+changed -> changed,
\* ok+unchanged -> ok, failed, error or timeout -> failed; and the worker
\* goes on to the next step, so that a finished worker has published every
\* ordinary step of every known app
TallyMoves(w, o, c, f) ==
    /\ worker'[w].ok = worker[w].ok + o
    /\ worker'[w].changed = worker[w].changed + c
    /\ worker'[w].failed = worker[w].failed + f

C4_StepOutcome(w) ==
    (worker[w].pc = "wait" /\ worker'[w].pc # "wait") =>
        /\ worker'[w].pc = "step"
        /\ worker'[w].step = worker[w].step + 1
        /\ worker'[w].app = worker[w].app
        /\ IF worker[w].inbox = <<>> THEN TallyMoves(w, 0, 0, 1)
           ELSE LET resp == worker[w].inbox[1].body IN
                CASE resp.status = StatusOK /\ resp.changed -> TallyMoves(w, 0, 1, 0)
                  [] resp.status = StatusOK /\ ~resp.changed -> TallyMoves(w, 1, 0, 0)
                  [] resp.status \in {StatusFailed, StatusError} -> TallyMoves(w, 0, 0, 1)
                  [] OTHER -> FALSE

C4_AllStepsTried ==
    \A w \in Workers : (HostKnown(w) /\ Finished(w)) =>
        \A i \in 1..Len(envApps) : AppKnown(i) =>
            \A n \in DOMAIN cfgApps[envApps[i]].Steps :
                LET step == cfgApps[envApps[i]].Steps[n] IN
                (n >= 1 /\ ~IsArtifactStep(step)) =>
                    \E r \in emitted : r.w = w /\ r.app = i /\ r.n = n

C4_TallyMapping ==
    /\ []C4_AllStepsTried
    /\ [][\A w \in Workers : C4_StepOutcome(w)]_vars

\* a worker that counted one step of each kind and is finished
C4_Witness ==
    \E w \in Workers :
        /\ Finished(w)
        /\ worker[w].ok >= 1 /\ worker[w].changed >= 1 /\ worker[w].failed >= 1
        /\ worker[w].returned >= 3

\* C5: when run ends, the exit status is non-zero exactly when failedCount
\* is positive, and the three counts are the sums of what the hosts tallied
HostTally(w) ==
    IF HostKnown(w) THEN Result(worker[w].ok, worker[w].changed, worker[w].failed)
    ELSE Result(0, 0, 1)

RECURSIVE SumTally(_, _)
SumTally(W, f) ==
    IF W = {} THEN 0
    ELSE LET w == CHOOSE x \in W : TRUE IN HostTally(w)[f] + SumTally(W \ {w}, f)

C5_ExitIffFailed ==
    mainPc = "done" =>
        /\ (exitCode # <<0>>) <=> (failedCount > 0)
        /\ okCount = SumTally(Workers, "ok")
        /\ changedCount = SumTally(Workers, "changed")
        /\ failedCount = SumTally(Workers, "failed")

\* run has ended with exactly one failure, of the second host, and a change
\* on the first
C5_Witness ==
    /\ mainPc = "done" /\ N = 2
    /\ failedCount = 1 /\ changedCount >= 1 /\ exitCode = <<1>>
    /\ HostTally(1).failed = 0 /\ HostTally(2).failed = 1

\* C6: run ends: main reaches the summary having received one result from
\* each of the N workers, and every worker has sent exactly one result
C6_Ends ==
    /\ mainPc = "done" /\ received = N /\ resultCh = <<>>
    /\ \A w \in Workers : Finished(w) /\ Len(worker[w].result) = 1

C6_Terminates == <>[]C6_Ends

\* a run of two hosts under a ceiling of 1 that ended, the second host
\* having waited for the token
C6_Witness ==
    /\ C6_Ends /\ N = 2 /\ envConcurrency = 1
    /\ \E r \in emitted : r.w = 2

\* C7: a host not in cfg.Hosts sends result{failed: 1} and publishes
\* nothing; an app not in cfg.Apps adds one to failed and the worker goes to
\* the next app
C7_GhostHost ==
    \A w \in Workers : ~HostKnown(w) =>
        /\ \A r \in emitted : r.w # w
        /\ Finished(w) => worker[w].result = <<Result(0, 0, 1)>>

C7_UnknownApp(w) ==
    (/\ worker[w].pc = "app"
     /\ worker[w].app <= Len(envApps)
     /\ ~AppKnown(worker[w].app)
     /\ worker'[w] # worker[w]) =>
        /\ TallyMoves(w, 0, 0, 1)
        /\ worker'[w].pc = "app"
        /\ worker'[w].app = worker[w].app + 1
        /\ emitted' = emitted

C7_MissingReferences ==
    /\ []C7_GhostHost
    /\ [][\A w \in Workers : C7_UnknownApp(w)]_vars

\* a ghost host has finished, and another worker went past an unknown app
\* into the steps of the next app
C7_Witness ==
    \E g \in Workers : \E w \in Workers :
        /\ ~HostKnown(g) /\ worker[g].pc = "done"
        /\ HostKnown(w) /\ worker[w].pc \in {"wait", "cwait"}
        /\ worker[w].app = 2 /\ ~AppKnown(1) /\ worker[w].failed >= 1

\* C8: every reply an agent published on ping, run, discover or update went
\* to the reply subject of a request and carries that request's request_id
C8_RepliesEchoRequestID ==
    \A r \in BagToSet(replies) :
        \E m \in injected : m.reply = r.to /\ m.request_id = r.request_id

\* the agent has answered a run request of an unknown verb, an update
\* request and a ping or discover request
Answered(m) == \E r \in BagToSet(replies) : r.to = m.reply
C8_Witness ==
    \E m1 \in injected : \E m2 \in injected : \E m3 \in injected :
        /\ m1.subject = "run" /\ m1.action = "frob" /\ Answered(m1)
        /\ m2.subject = "update" /\ Answered(m2)
        /\ m3.subject \in {"ping", "discover"} /\ Answered(m3)

\* C9: a reply the controller can read whose request_id is not the id of
\* the outstanding request moves neither ok nor changed and does not end
\* the wait for the outstanding request
Outstanding(w) == generateID(w, worker[w].seq)
C9_MismatchDiscarded ==
    [][\A w \in Workers :
        (/\ worker[w].pc \in {"wait", "cwait"}
         /\ worker[w].inbox # <<>>
         /\ ReplyReadable(worker[w].inbox[1])
         /\ worker[w].inbox[1].body.request_id # Outstanding(w)) =>
            /\ worker'[w].ok = worker[w].ok
            /\ worker'[w].changed = worker[w].changed
            /\ worker'[w].returned = worker[w].returned]_vars

\* C10 as stated: once everything has settled, every request the
\* controller published has exactly one reply with its id, and there is no
\* other reply
ReplyCount(id) ==
    BagCardinality([r \in {x \in BagToSet(replies) : x.request_id = id} |-> replies[r]])

Accepted(e) == AgentIDOf(envHosts[e.w]) \in Agents /\ key = secretKey
SecretInEffect == IF cli.sec # "" THEN cli.sec ELSE cli.env

\* C11: when a shared secret is in effect (given by -sec or by
\* STAPPLY_SHARED_KEY), the request a ping, discover or update command put
\* on the wire is an encrypted envelope, and so is the reply it received
C11_NoPlaintextOnWire ==
    cli.pc # "off" /\ SecretInEffect # "" =>
        /\ cli.sent[1].enc
        /\ cli.reply # <<>> => cli.reply[1].enc

Unreadable(data) ==
    \/ secretKey # "" /\ ~(data.enc /\ data.key = secretKey)
    \/ secretKey = "" /\ data.enc
    \/ ~data.valid

\* the message a handler takes next off its subscription is unreadable
UnreadableHead(q) == q # <<>> /\ Unreadable(Head(q).data)

\* the handler published nothing and did nothing
NoHandlerWork ==
    /\ replies' = replies
    /\ handling' = handling
    /\ version' = version /\ proc' = proc
    /\ worker' = worker /\ cli' = cli

NoUpdate == \A m \in injected : m.subject # "update"
\* the agent has handled every run message it was sent
RunsHandled == \A a \in Agents : subQueue[a] = <<>> /\ handling[a] = {}
\* a run request the agent can read that names an unknown verb or lacks a
\* required argument
RequestError(m) ==
    /\ m.subject = "run" /\ m.valid /\ key = secretKey
    /\ m.action \notin Registry \/ m.missing # ""
\* bytes on the run subject that are no JSON
Malformed(m) == m.subject = "run" /\ ~m.valid

\* the reply handleRun is about to publish for a message it is executing
RepliesFor(msg) ==
    Execute(msg.data.body.request_id, msg.data.body.action, msg.data.body.args,
            msg.data.body.dry_run)

\* C14 as stated: a run request that is malformed JSON, names an unknown
\* verb or lacks a required argument is answered to the caller
C14_AllAnswered ==
    NoUpdate /\ RunsHandled =>
        \A m \in injected : RequestError(m) \/ (Malformed(m) /\ key = secretKey) => Answered(m)

\* C14 amended: a run request that names an unknown verb or lacks a
\* required argument is answered with status error and a reason (for an
\* unknown verb "unknown action type") under the request's id, and the
\* agent keeps running; a run request that is malformed JSON gets no reply
C14_RequestErrorsAnswered ==
    /\ \A a \in Agents : \A msg \in handling[a] :
          LET req == msg.data.body IN
          /\ RepliesFor(msg) # {}
          /\ req.action \notin Registry =>
                \A resp \in RepliesFor(msg) :
                    /\ resp.status = StatusError
                    /\ resp.error = "unknown action type"
                    /\ resp.request_id = req.request_id
          /\ MissingArg(req.action, req.args) # "" =>
                \A resp \in RepliesFor(msg) :
                    /\ resp.status = StatusError /\ resp.error # ""
                    /\ resp.request_id = req.request_id
    /\ NoUpdate => \A a \in Agents : proc[a] = "running"
    /\ NoUpdate /\ RunsHandled =>
          \A m \in injected :
              /\ RequestError(m) => Answered(m)
              /\ Malformed(m) => ~Answered(m)

\* the agent has answered a request of an unknown verb and a cmd request
\* without a command, and has dropped bytes that are no JSON
C14_Witness ==
    /\ NoUpdate /\ RunsHandled
    /\ \E m \in injected : RequestError(m) /\ m.action \notin Registry /\ Answered(m)
    /\ \E m \in injected : RequestError(m) /\ m.missing = "command" /\ Answered(m)
    /\ \E m \in injected : Malformed(m) /\ ~Answered(m)

\* C15: whenever an action finished with a non-zero exit code, the reply
\* the controller receives has status failed, carries the exit code and
\* has changed = FALSE
C15_FailedNotChanged ==
    \A w \in Workers :
        worker[w].inbox # <<>> =>
            LET resp == worker[w].inbox[1].body IN
            resp.exit_code # 0 => resp.status = StatusFailed /\ ~resp.changed

\* what is on the host: files with content, mode and owner, directories,
\* lock entries, the state of the unit
OnHost(h) == <<h.files, h.dirs, h.locks, h.active, h.enabled>>

\* C16: a run request with dry_run = TRUE never mutates on-host state, for
\* every verb: files, directories and lock entries are as before, no
\* command and no systemctl operation is executed
C16_DryRunNoMutation ==
    [][host'.last # <<>> /\ host'.last[1].dry_run =>
           OnHost(host') = OnHost(host) /\ ~host'.last[1].forked]_vars

\* a request for the host
HostRequest(actionName, args, dryRun) ==
    NewRunRequest(generateID(0, 1), actionName, args, dryRun)

\* the content a write_file or template_file request wants in its file
Wanted(actionName, args) ==
    IF actionName = "write_file" THEN args.content
    ELSE Render(args.template, IF "vars" \in DOMAIN args THEN args.vars ELSE <<>>)

\* C17: for write_file and template_file, in any on-host state where the
\* real run succeeds, the changed flag of the dry run's reply is the one the
\* real run of the same request returns in that state: TRUE iff the file is
\* absent or its content differs from the new content
C17_DryRunChangedAsReal ==
    \A actionName \in {"write_file", "template_file"} :
        \A args \in HostArgs(actionName) :
            LET real == RegistryExecute(host, HostRequest(actionName, args, FALSE))
                dry == RegistryExecute(host, HostRequest(actionName, args, TRUE))
            IN real.resp.status = StatusOK =>
                   /\ dry.resp.changed = real.resp.changed
                   /\ dry.resp.changed <=>
                          \/ host.files[args.path] = <<>>
                          \/ host.files[args.path][1].content # Wanted(actionName, args)

\* a dry run of write_file has found the file holding other content, or
\* one of template_file has found it holding the rendered content; the real
\* run of the request would succeed
C17_Witness ==
    /\ host.last # <<>>
    /\ host.last[1].dry_run /\ host.last[1].resp.status = StatusOK
    /\ \/ /\ host.last[1].action = "write_file"
          /\ host.last[1].resp.changed /\ host.last[1].before # <<>>
       \/ /\ host.last[1].action = "template_file"
          /\ ~host.last[1].resp.changed
    /\ RegistryExecute(host, HostRequest(host.last[1].action, host.last[1].args, FALSE))
           .resp.status = StatusOK

\* C18: for every cmd request with a command, dry run or not, the reply's
\* changed flag is FALSE iff the `creates` guard fired (the `creates` path
\* existed), and then the command was not executed; a dry run never forks
C18_ChangedUnlessCreates ==
    [][host'.last # <<>> /\ host'.last[1].action = "cmd" =>
           LET l == host'.last[1]
               fired == Lookup(l.args, "creates") # "" /\ StatOk(host, l.args.creates)
           IN /\ ~l.resp.changed <=> fired
              /\ fired \/ l.dry_run => ~l.forked]_vars

\* C19: write_file is idempotent: when a request was executed, succeeded,
\* and the same request is executed next, the second reply has
\* changed = FALSE and the file holds the request's content after the
\* first and after the second execution
C19_WriteFileIdempotent ==
    host.last # <<>> /\ host.last[1].action = "write_file" /\ host.last[1].again =>
        LET l == host.last[1] IN
        /\ ~l.resp.changed
        /\ l.before # <<>> /\ l.before[1].content = l.args.content
        /\ host.files[l.args.path] # <<>>
        /\ host.files[l.args.path][1].content = l.args.content

\* the same write_file request has been executed twice in a row, both
\* times with success
C19_Witness ==
    /\ host.last # <<>>
    /\ host.last[1].action = "write_file" /\ host.last[1].again
    /\ host.last[1].resp.status = StatusOK

\* C20: for a successful write_file that is no dry run, the reply's changed
\* flag is TRUE iff the file was written or its mode or owner was changed
\* by the request
C20_ChangedIffWrittenOrApplied ==
    host.last # <<>> /\ host.last[1].action = "write_file"
    /\ ~host.last[1].dry_run /\ host.last[1].resp.status = StatusOK =>
        LET l == host.last[1]
            now == host.files[l.args.path][1]
            written == l.before = <<>> \/ l.before[1].content # now.content
            applied == /\ l.before # <<>>
                       /\ l.before[1].mode # now.mode \/ l.before[1].owner # now.owner
        IN l.resp.changed <=> written \/ applied

\* the state of the unit a systemd request names as it was before the
\* request: a unit that is not installed is neither enabled nor active
PreEnabled(l) == Lookup(l.args, "unit") = "u" /\ l.unit.enabled
PreActive(l) == Lookup(l.args, "unit") = "u" /\ l.unit.active

\* C21: the changed flag of a systemd reply: enable TRUE iff the unit was
\* not enabled, disable iff it was enabled, start iff it was not active,
\* stop and restart iff it was active, daemon-reload always; and an enable
\* that follows a successful enable of the same unit has changed = FALSE
C21_SystemdChangeDetection ==
    host.last # <<>> /\ host.last[1].action = "systemd"
    /\ host.last[1].resp.status # StatusError =>
        LET l == host.last[1]
            a == l.args.action
        IN /\ l.resp.changed <=>
                  CASE a = "enable" -> ~PreEnabled(l)
                    [] a = "disable" -> PreEnabled(l)
                    [] a = "start" -> ~PreActive(l)
                    [] a = "stop" -> PreActive(l)
                    [] a = "restart" -> PreActive(l)
                    [] a = "daemon-reload" -> TRUE
           /\ a = "enable" /\ l.again => ~l.resp.changed

\* enable <u> has been executed twice in a row, the first time with success
C21_Witness ==
    /\ host.last # <<>>
    /\ host.last[1].action = "systemd" /\ host.last[1].args.action = "enable"
    /\ host.last[1].again /\ ~host.last[1].resp.changed

\* the length of a file received in chunks, in MiB
RECURSIVE FileSize(_)
FileSize(content) ==
    IF content = <<>> THEN 0 ELSE content[1][3] + FileSize(Tail(content))

\* C22: when the agent answers the final chunk (chunk_index =
\* total_chunks - 1) of a deploy_artifact request that is no dry run with
\* status ok, the SHA-256 of the destination file is the request's checksum
\* and the file's length is its total_size; when the digest of the file
\* differs from the checksum the reply has status error
C22_ArtifactIntegrity ==
    host.last # <<>> /\ host.last[1].action = "deploy_artifact"
    /\ ~host.last[1].dry_run
    /\ host.last[1].args.chunk_index = host.last[1].args.total_chunks - 1 =>
        LET l == host.last[1]
            file == IF Exists(host, l.args.dest)
                    THEN host.files[l.args.dest][1].content ELSE <<>>
        IN /\ l.resp.status = StatusOK =>
                  /\ calculateSHA256(file) = l.args.checksum
                  /\ FileSize(file) = l.args.total_size
           /\ calculateSHA256(file) # l.args.checksum => l.resp.status = StatusError

\* a call of Execute holds the mutex of its destination and has the file
\* to open, write and verify
InSection(g) == calls.g[g].pc = "locked"

ChunksOfStep(w) ==
    {e \in emitted : /\ e.w = w /\ e.action = "deploy_artifact"
                     /\ e.app = worker[w].app
                     /\ e.n = StepNoOf(envApps[e.app], CurStep(w))}

\* worker w holds a reply that decrypts, parses, answers the chunk in
\* flight and has status ok
OkReplyInHand(w) ==
    /\ worker[w].inbox # <<>>
    /\ CanRead(worker[w].inbox[1], key)
    /\ worker[w].inbox[1].body.status = StatusOK
    /\ \E e \in ChunksOfStep(w) :
          e.chunk = worker[w].chunk /\ e.request_id = worker[w].inbox[1].body.request_id

\* C24: in the controller's artifact deployment a chunk is published once,
\* in order, chunk i + 1 only after an ok reply to chunk i was received; on
\* the first timeout, unreadable reply or reply that is not ok the
\* deployment stops: the step counts as failed, the worker goes on to the
\* next step and no chunk of that artifact is sent afterwards
C24_ChunksSequentialAbortOnFailure ==
    [][/\ emitted' # emitted =>
          \A e \in emitted' \ emitted :
              e.action = "deploy_artifact" =>
                  LET w == e.w IN
                  /\ worker[w].pc = "chunk" /\ e \in ChunksOfStep(w)'
                  /\ e.chunk = worker[w].chunk
                  /\ \A e0 \in ChunksOfStep(w) : e0.chunk < e.chunk
                  /\ e.chunk > 0 => \E e0 \in ChunksOfStep(w) : e0.chunk = e.chunk - 1
       /\ worker' # worker =>
          \A w \in Workers :
              /\ worker'[w].chunk > worker[w].chunk =>
                    /\ worker[w].pc = "cwait" /\ OkReplyInHand(w)
                    /\ worker'[w].chunk = worker[w].chunk + 1
              /\ worker[w].pc = "cwait" /\ worker'[w].pc # "cwait" /\ ~OkReplyInHand(w) =>
                    /\ worker'[w].failed = worker[w].failed + 1
                    /\ worker'[w].pc = "step" /\ worker'[w].app = worker[w].app
                    /\ worker'[w].step = worker[w].step + 1
              /\ worker'[w].app >= worker[w].app
              /\ worker'[w].app = worker[w].app /\ worker[w].pc \notin {"idle", "app"} =>
                    worker'[w].step >= worker[w].step
      ]_vars

\* the second chunk of the artifact was published and was not answered
\* with ok: both steps of app art have failed and the worker has gone on
C24_Witness ==
    /\ envApps = <<"art">>
    /\ \E e \in emitted :
          /\ e.action = "deploy_artifact" /\ e.chunk = 1
          /\ worker[e.w].failed = 2 /\ worker[e.w].pc = "done"

\* a cmd step whose command begins with STAPPLY_ACTION: deploy_artifact
MarkerStep(step) ==
    /\ step.Action = "cmd"
    /\ Len(step.ArgsMap.command) >= 2
    /\ SubSeq(step.ArgsMap.command, 1, 2) = Marker

\* the step a published request was made for
StepOf(e) == cfgApps[envApps[e.app]].Steps[e.n]

\* worker w is at the top of the step loop with a marker step before it
AtMarkerStep(w) ==
    /\ worker[w].pc = "step"
    /\ worker[w].step <= Len(CurSteps(w))
    /\ MarkerStep(CurStep(w))

\* C25: in run, a cmd step whose command begins with the marker is never
\* published as a cmd request: every request published for it is a
\* deploy_artifact chunk, the step loop hands it to the chunk loop without
\* publishing, and when src or dest is missing from its key=value words the
\* step adds one to failed, publishes nothing and the worker goes on
C25_MarkerStepRerouted ==
    [][/\ emitted' # emitted =>
          \A e \in emitted' : MarkerStep(StepOf(e)) => e.action = "deploy_artifact"
       /\ worker' # worker =>
          \A w \in Workers :
              AtMarkerStep(w) /\ worker'[w] # worker[w] =>
                  LET a == ArtifactArgs(CurStep(w))
                      missing == Lookup(a, "src") = "" \/ Lookup(a, "dest") = ""
                      failed == /\ worker'[w].failed = worker[w].failed + 1
                                /\ worker'[w].pc = "step"
                                /\ worker'[w].step = worker[w].step + 1
                  IN /\ emitted' = emitted /\ subQueue' = subQueue
                     /\ IF missing THEN failed
                        ELSE failed \/ (worker'[w].pc = "chunk" /\ worker'[w].chunk = 0)
      ]_vars

\* a worker has passed the first step of app art, whose marker command
\* names no dest: one failed, nothing published for the app
C25_Witness ==
    \E w \in Workers :
        /\ worker[w].pc = "step" /\ worker[w].step = 2
        /\ worker[w].app <= Len(envApps) /\ envApps[worker[w].app] = "art"
        /\ worker[w].failed = 1
        /\ \A e \in emitted : e.w = w => e.app # worker[w].app

\* the event handleUpdate of agent a adds in this step, "" when none
NewEvent(a) ==
    IF Len(disk'[a].events) = Len(disk[a].events) + 1
    THEN disk'[a].events[Len(disk'[a].events)] ELSE ""

\* C26: when the download, the chmod or the rename of a self-update fails,
\* the agent hands exactly one reply to its connection, with success FALSE,
\* the request's id and the error of the step that failed; the executable
\* is the old binary, unchanged; the process keeps running and handleUpdate
\* has returned, so the subscriptions are served
C26_UpdateFailureRecoverable ==
    [][\A a \in Agents :
          NewEvent(a) \in {"download failed", "chmod failed", "replace failed"} =>
              /\ Len(disk'[a].out) = Len(disk[a].out) + 1
              /\ LET r == disk'[a].out[Len(disk'[a].out)] IN
                    /\ r.to = disk[a].msg[1].reply
                    /\ r.data.body.request_id = disk[a].msg[1].data.body.request_id
                    /\ ~r.data.body.success
                    /\ r.data.body.error = NewEvent(a)
              /\ disk'[a].exe = disk[a].exe /\ disk'[a].exe = version[a]
              /\ proc'[a] = "running" /\ version'[a] = version[a]
              /\ disk'[a].pc = "idle"
      ]_vars

\* the rename of an update has failed: the reply is with the connection,
\* the old binary in place, the agent running
C26_Witness ==
    \E a \in Agents :
        /\ disk[a].events = <<"replace failed">>
        /\ disk[a].out # <<>> /\ ~disk[a].out[1].data.body.success
        /\ disk[a].exe = "v1" /\ proc[a] = "running"

\* C27: on a successful self-update the process ends (exit 0 or exec) after
\* the rename, the success reply and the drain, in this order, and the
\* success reply has left the agent by then: nothing is unwritten
C27_ReplyDeliveredBeforeExit ==
    [][\A a \in Agents :
          NewEvent(a) \in {"exit 0", "exec", "exec failed"} =>
              /\ disk[a].events = <<"rename", "respond", "drain">>
              /\ disk[a].out = <<>>
      ]_vars

\* C28: when the exec of the new binary fails after the rename, the new
\* binary is on disk and the old process keeps running
C28_ExecFailureKeepsRunning ==
    [][\A a \in Agents :
          NewEvent(a) = "exec failed" =>
              /\ disk'[a].exe = disk[a].msg[1].data.body.target_version
              /\ proc'[a] = "running"
      ]_vars

\* the five ranges of the default policy; the IPv6 loopback is counted
\* with 127.0.0.0/8
AllowedRanges ==
    {CIDR(127, 0, 0, 0, 8), CIDR(10, 0, 0, 0, 8), CIDR(172, 16, 0, 0, 12),
     CIDR(192, 168, 0, 0, 16), CIDR(100, 64, 0, 0, 10)}
InAllowedRanges(ip) == ip = IPv6loopback \/ \E r \in AllowedRanges : Contains(r, ip)
Validated == conn.validated # <<>>
Rejected == conn.pc = "exit" /\ conn.err # ""
\* the addresses of the URL that ValidateNATSURL was given
Resolved == LookupIP((IF Validated THEN conn.validated[1] ELSE conn.natsURL).host)

\* C29: without allow-public a URL passes validation exactly when its host
\* resolves and every address it resolves to lies in the five ranges; with
\* allow-public it passes exactly when its host resolves
C29_PrivateOnly ==
    /\ Validated =>
          /\ Resolved # <<>>
          /\ conn.allowPublic \/ \A i \in 1..Len(Resolved) : InAllowedRanges(Resolved[i])
    /\ Rejected =>
          \/ Resolved = <<>>
          \/ ~conn.allowPublic /\ \E i \in 1..Len(Resolved) : ~InAllowedRanges(Resolved[i])

\* C30: the URL handed to nats.Connect is the URL that passed
\* ValidateNATSURL with the invocation's allow-public flag, and an
\* invocation whose URL failed the validation ends without a connect
C30_ConnectsOnlyValidated ==
    /\ conn.dialled # <<>> => conn.validated = conn.dialled
    /\ conn.err # "" => conn.dialled = <<>> /\ conn.exit = <<1>>

\* C31: a host given without scheme and without port comes back as
\* nats://<host>:4222; a scheme nats or tls that was given is kept; a port
\* that was given is kept; normalising the result again changes nothing
C31_NormalizeFixedPoint ==
    /\ conn.pc \in {"normalized", "twice"} /\ conn.server[1] # EmptyURL =>
          LET x == conn.server[1]
              r == conn.once[1]
          IN /\ x.scheme = "" /\ x.port = "" =>
                    r = [scheme |-> "nats", host |-> x.host, port |-> "4222"]
             /\ x.scheme # "" => r.scheme = x.scheme
             /\ x.port # "" => r.port = x.port
    /\ conn.pc = "twice" => conn.natsURL = conn.once[1]

C33_DiscoverAlwaysAnswers ==
    [][\A a \in Agents :
          (/\ discoverQueue[a] # <<>>
           /\ discoverQueue'[a] = Tail(discoverQueue[a])
           /\ proc[a] = "running" /\ proc' = proc /\ version' = version
           /\ updateQueue' = updateQueue /\ pingQueue' = pingQueue
           /\ CanRead(Head(discoverQueue[a]).data, secretKey))
          => LET msg == Head(discoverQueue[a])
                 r == [to |-> msg.reply, request_id |-> msg.data.body.request_id]
             IN CopiesIn(r, replies') = CopiesIn(r, replies) + 1
      ]_vars

\* the source file whose transfer to dest is under way on h: the file holds
\* its first chunks in order and not yet its final one; <<>> when none is
Underway(h, dest) ==
    LET content == IF Exists(h, dest) THEN h.files[dest][1].content ELSE <<>>
        begun == {src \in DOMAIN srcFiles :
                     /\ content # <<>> /\ Len(content) < Len(WholeFile(src))
                     /\ content = SubSeq(WholeFile(src), 1, Len(content))}
    IN IF begun = {} THEN <<>> ELSE <<CHOOSE src \in begun : TRUE>>

\* C34: while a transfer to dest is between its chunk 0 and its final
\* chunk, no chunk of another transfer is written to dest
C34_TransfersNotInterleaved ==
    [][host' # host /\ host'.last[1].action = "deploy_artifact" =>
          LET l == host'.last[1]
              dest == l.args.dest
          IN Underway(host, dest) # <<>> /\ host'.files[dest] # host.files[dest]
                => l.args.chunk_data[1] = Underway(host, dest)[1]
      ]_vars

\* C35: once the final chunk of a transfer to dest has been processed, the
\* reply being ok or the error of a failed verification, the lock map has
\* no entry for dest
C35_LockMapBounded ==
    host.last # <<>> /\ host.last[1].action = "deploy_artifact" /\ ~host.last[1].dry_run
    /\ host.last[1].args.chunk_index = host.last[1].args.total_chunks - 1 =>
        LET l == host.last[1] IN
           l.resp.status = StatusOK \/ ChecksumMismatch(host, l.args)
              => l.args.dest \notin host.locks

\* what the goroutine of worker w goes through before it sends its result:
\* one for a host the config lacks; otherwise one for each unknown app and
\* one for each step GetOrderedSteps returns for a known app
RECURSIVE AttemptedFrom(_)
AttemptedFrom(i) ==
    IF i > Len(envApps) THEN 0
    ELSE (IF AppKnown(i) THEN Len(GetOrderedSteps(cfgApps[envApps[i]])) ELSE 1)
         + AttemptedFrom(i + 1)
RECURSIVE AttemptedBy(_)
AttemptedBy(W) ==
    IF W = {} THEN 0
    ELSE LET w == CHOOSE x \in W : TRUE
         IN (IF HostKnown(w) THEN AttemptedFrom(1) ELSE 1) + AttemptedBy(W \ {w})

\* C36: when the summary is printed, ok + changed + failed is the number of
\* steps attempted plus the unknown apps hit plus the missing hosts
C36_TallyConservation ==
    mainPc = "done" => okCount + changedCount + failedCount = AttemptedBy(Workers)
\* the chunks runDeployArtifact has published are the chunks of its source,
\* with the indices 0, 1, ... in order
SentInOrder ==
    /\ Len(deploy.sent) <= TotalChunks(srcFiles[deploy.src])
    /\ \A j \in 1..Len(deploy.sent) :
          /\ deploy.sent[j].chunk_index = j - 1
          /\ deploy.sent[j].chunk_data = WholeFile(deploy.src)[j]
          /\ deploy.sent[j].total_chunks = TotalChunks(srcFiles[deploy.src])

\* runDeployArtifact has returned nil
Deployed == deploy.pc = "returned" /\ deploy.err = <<"">>

\* C37: for every size of the source, zero included, the chunks sent are
\* the ceil(total_size / chunkSize) chunks of the source in order, and when
\* runDeployArtifact returns nil the file at dest exists and is the source
C37_ChunksReassemble ==
    /\ deploy.src \in DOMAIN srcFiles => SentInOrder
    /\ Deployed =>
          /\ Len(deploy.sent) = TotalChunks(srcFiles[deploy.src])
          /\ Exists(host, deploy.dest)
          /\ host.files[deploy.dest][1].content = WholeFile(deploy.src)

\* C38: after a self-update attempt answered with success FALSE, the
\* download, the chmod or the rename having failed, there is no file
\* <executable>.new on the disk
C38_TempFileRemoved ==
    [][\A a \in Agents :
          NewEvent(a) \in {"download failed", "chmod failed", "replace failed"} =>
              disk'[a].tmp = <<>>
      ]_vars

\* C39: preflight called with -c <config> and -e <env> goes on to its
\* checks and its dry run: it does not end with the usage message
C39_PreflightRuns ==
    conn.cmd = "preflight" /\ conn.arg # "" => ~conn.usage

\* the run requests worker w has published for step number n of app i
DispatchedFor(w, i, n) == {r \in emitted : r.w = w /\ r.app = i /\ r.n = n}

\* C40: every step stored for an app, whatever its number, zero and
\* negative numbers included, is dispatched exactly once per host by run
C40_EveryStoredStepRuns ==
    \A w \in Workers : (HostKnown(w) /\ Finished(w)) =>
        \A i \in 1..Len(envApps) : AppKnown(i) =>
            \A n \in DOMAIN cfgApps[envApps[i]].Steps :
                ~IsArtifactStep(cfgApps[envApps[i]].Steps[n]) =>
                    Cardinality(DispatchedFor(w, i, n)) = 1
====
